---------------------------- MODULE Spec2Model ----------------------------
(***************************************************************************)
(* DeepGen research pipeline: proposal synthesis, contradiction analysis,  *)
(* evidence retrieval, the job orchestrator, proposal review and apply.    *)
(*                                                                         *)
(* Conventions of the model                                                *)
(*   - Python None is the string None; a value is "truthy" when it is      *)
(*     neither None nor the empty string.                                  *)
(*   - confidences and scores are fixed-point: a confidence is an integer  *)
(*     number of thousandths (0..1000); a composite score is an integer    *)
(*     number of 1/ScoreScale units, ScoreScale = 1000*100*3*SupportLcm,   *)
(*     which represents every term of the score formula exactly.           *)
(*   - JSON list columns (evidence_ids_json, ...) are sequences.           *)
(***************************************************************************)
EXTENDS Integers, Sequences, FiniteSets, TLC

None == "<None>"

Truthy(v) == v # None /\ v # ""

Min2(a, b) == IF a <= b THEN a ELSE b

Max2(a, b) == IF a >= b THEN a ELSE b

RECURSIVE SumSeq(_)
SumSeq(s) == IF s = <<>> THEN 0 ELSE Head(s) + SumSeq(Tail(s))

SeqRange(s) == {s[i] : i \in DOMAIN s}

RECURSIVE SortedInts(_)
\* sorted(S) for a finite set of integers
SortedInts(S) ==
    IF S = {} THEN <<>>
    ELSE LET m == CHOOSE x \in S : \A y \in S : x <= y
         IN  <<m>> \o SortedInts(S \ {m})

\* round-half-even of num/den (den > 0, num >= 0), Python's round()
RoundDiv(num, den) ==
    LET q == num \div den
        r == num % den
    IN  IF 2 * r < den THEN q
        ELSE IF 2 * r > den THEN q + 1
        ELSE IF q % 2 = 0 THEN q ELSE q + 1

(***************************************************************************)
(* Names.  The model's name universe and the normalisation                 *)
(* " ".join(value.lower().split()) on it.                                  *)
(***************************************************************************)
Names == {"John Doe", "john  doe", "James Doe", "Jane Doe", "Mary Smith"}

_norm_name(value) ==
    CASE value = "John Doe"   -> "john doe"
      [] value = "john  doe"  -> "john doe"
      [] value = "James Doe"  -> "james doe"
      [] value = "Jane Doe"   -> "jane doe"
      [] value = "Mary Smith" -> "mary smith"
      [] value = "Jane Doee"  -> "jane doee"
      [] OTHER                -> ""

\* str.strip() on the model's strings: only the blank string changes
Strip(value) == IF value = "  " THEN "" ELSE value

Relationships == <<"father", "mother">>

(***************************************************************************)
(* Contradiction flags, with their rank in Python's string order.          *)
(***************************************************************************)
FlagRank(f) ==
    CASE f = "chronology_conflict"                      -> 1
      [] f = "multiple_high_confidence_candidates"      -> 2
      [] f = "same_parent_name_for_both_relationships"  -> 3
      [] f = "self_parent_conflict"                     -> 4

RECURSIVE SortedFlags(_)
\* sorted(set(flags))
SortedFlags(S) ==
    IF S = {} THEN <<>>
    ELSE LET m == CHOOSE x \in S : \A y \in S : FlagRank(x) <= FlagRank(y)
         IN  <<m>> \o SortedFlags(S \ {m})

(***************************************************************************)
(* scoring.py                                                              *)
(***************************************************************************)
SupportLcm == 3 * 4 * 5

ScoreScale == 1000 * 100 * 3 * SupportLcm

\* per-mille value of a scaled score: round(score, 3)
Round3(score) == RoundDiv(score, 100 * 3 * SupportLcm)

minimum_score == 35 * 1000 * 3 * SupportLcm

_insufficient(relationship, reason) ==
    [relationship |-> relationship, candidate_name |-> None, confidence |-> 0,
     status |-> "pending_review", notes |-> reason, evidence_ids |-> <<>>,
     contradiction_flags |-> <<>>, final_score |-> 0]

\* scoring.py 52-61: the union of the evidence ids the candidate's claims cite
CandidateEvidenceIds(candidate_claims) ==
    UNION {SeqRange(candidate_claims[i].evidence_ids) : i \in DOMAIN candidate_claims}

\* Mutant: the clamp of line 82 is dropped.
ClampScoreMutant(raw) == raw

\* scoring.py 82: max(0.0, min(1.0, final_score))
ClampScore(raw) == Max2(0, Min2(ScoreScale, raw))

\* the scaled final_score and the sorted evidence ids of one candidate group
_compute_candidate_score(candidate_claims, evidence_sources, contradiction_flags, global_flags) ==
    LET evidence_ids == CandidateEvidenceIds(candidate_claims)
        support_count == Len(candidate_claims)
        sum_conf == SumSeq([i \in DOMAIN candidate_claims |-> candidate_claims[i].confidence])
        claims_with_evidence ==
            Cardinality({i \in DOMAIN candidate_claims : candidate_claims[i].evidence_ids # <<>>})
        source_diversity_raw ==
            Cardinality({evidence_sources[eid] :
                eid \in {e \in evidence_ids : e \in DOMAIN evidence_sources /\ evidence_sources[e] # ""}})
        penalty ==
            (IF contradiction_flags # <<>> THEN 25 * 1000 * 3 * SupportLcm ELSE 0)
            + (IF "same_parent_name_for_both_relationships" \in SeqRange(global_flags)
               THEN 20 * 1000 * 3 * SupportLcm ELSE 0)
        raw ==
            IF support_count = 0 THEN 0 - penalty
            ELSE 45 * 3 * (SupportLcm \div support_count) * sum_conf
                 + 25 * 1000 * SupportLcm * Min2(3, support_count)
                 + 20 * 1000 * SupportLcm * Min2(3, source_diversity_raw)
                 + 10 * 1000 * 3 * (SupportLcm \div support_count) * claims_with_evidence
                 - penalty
    IN  [score |-> ClampScore(raw),
         evidence_ids |-> SortedInts(evidence_ids)]

\* Mutant: the citation check of line 148 is dropped, only the name is checked.
NoValidCitationsMutant(display_name, best_evidence_ids) == ~Truthy(display_name)

\* scoring.py 148: not display_name or not best_evidence_ids
NoValidCitations(display_name, best_evidence_ids) ==
    ~Truthy(display_name) \/ best_evidence_ids = <<>>

RECURSIVE GroupKeys(_, _, _)
\* keys of by_rel_name[relationship] in insertion (first-seen) order
GroupKeys(claims, relationship, seen) ==
    IF claims = <<>> THEN <<>>
    ELSE LET c == Head(claims)
             k == _norm_name(c.candidate_name)
         IN  IF c.relationship = relationship /\ Truthy(c.candidate_name) /\ k \notin seen
             THEN <<k>> \o GroupKeys(Tail(claims), relationship, seen \cup {k})
             ELSE GroupKeys(Tail(claims), relationship, seen)

\* by_rel_name[relationship][name_key]
GroupClaims(claims, relationship, name_key) ==
    LET InGroup(c) == c.relationship = relationship /\ Truthy(c.candidate_name)
                      /\ _norm_name(c.candidate_name) = name_key
    IN  SelectSeq(claims, InGroup)

\* Mutant: a later group with an equal score replaces the best one.
IsBetterMutant(score, best_score) == score >= best_score

\* scoring.py 132: if score > best_score
IsBetter(score, best_score) == score > best_score

RECURSIVE BestCandidate(_, _, _, _, _, _)
\* scoring.py 125-136: the first group with the strictly highest score
BestCandidate(keys, claims, relationship, evidence_sources, contradictions, best) ==
    IF keys = <<>> THEN best
    ELSE LET r == _compute_candidate_score(
                      GroupClaims(claims, relationship, Head(keys)), evidence_sources,
                      contradictions.by_relationship[relationship], contradictions.global_flags)
             nb == IF IsBetter(r.score, best.score)
                   THEN [name |-> Head(keys), score |-> r.score, evidence_ids |-> r.evidence_ids]
                   ELSE best
         IN  BestCandidate(Tail(keys), claims, relationship, evidence_sources, contradictions, nb)

\* Mutant: the quality threshold of line 152 never applies.
BelowThresholdMutant(best_score) == FALSE

\* scoring.py 152: if best_score < minimum_score
BelowThreshold(best_score) == best_score < minimum_score

\* scoring.py 114-178: the draft of one relationship
SynthesizeOne(claims, evidence_sources, contradictions, relationship) ==
    LET keys == GroupKeys(claims, relationship, {})
        best == BestCandidate(keys, claims, relationship, evidence_sources, contradictions,
                              [name |-> "", score |-> -1, evidence_ids |-> <<>>])
        group == GroupClaims(claims, relationship, best.name)
        display_name == IF group = <<>> THEN None ELSE Strip(group[1].candidate_name)
        flags == SortedFlags(SeqRange(contradictions.by_relationship[relationship])
                             \cup SeqRange(contradictions.global_flags))
    IN  IF keys = <<>>
        THEN _insufficient(relationship, "Insufficient evidence for a candidate parent.")
        ELSE IF NoValidCitations(display_name, best.evidence_ids)
        THEN _insufficient(relationship, "Insufficient evidence: no valid citations for proposal.")
        ELSE IF BelowThreshold(best.score)
        THEN [relationship |-> relationship, candidate_name |-> None,
              confidence |-> Round3(best.score), status |-> "pending_review",
              notes |-> "Insufficient evidence quality threshold.",
              evidence_ids |-> best.evidence_ids, contradiction_flags |-> flags,
              final_score |-> best.score]
        ELSE [relationship |-> relationship, candidate_name |-> display_name,
              confidence |-> Round3(best.score), status |-> "pending_review",
              notes |-> "Candidate synthesized from evidence and claim agreement.",
              evidence_ids |-> best.evidence_ids, contradiction_flags |-> flags,
              final_score |-> best.score]

synthesize_proposals(claims, evidence_sources, contradictions) ==
    [i \in 1..2 |-> SynthesizeOne(claims, evidence_sources, contradictions, Relationships[i])]


(***************************************************************************)
(* contradictions.py                                                       *)
(***************************************************************************)
\* _extract_year on the model's rationale texts: the last 4-digit group, if in 1500..2100
_extract_year(text) ==
    CASE text = "census 1890"       -> 1890
      [] text = "baptism 1925"      -> 1925
      [] text = "page 0042"         -> 0
      [] OTHER                      -> 0

HIGH_CONFIDENCE == 650

RECURSIVE TopName(_, _, _, _)
\* contradictions.py 55-57: the normalized name of the first claim with the highest confidence
TopName(claims, rel, top_conf, top_name) ==
    IF claims = <<>> THEN top_name
    ELSE LET c == Head(claims)
         IN  IF c.relationship = rel /\ Truthy(c.candidate_name) /\ c.confidence > top_conf
             THEN TopName(Tail(claims), rel, c.confidence, _norm_name(c.candidate_name))
             ELSE TopName(Tail(claims), rel, top_conf, top_name)

\* Mutant: the empty normalized name is not discarded.
HighConfNamesMutant(claims, rel) ==
    {_norm_name(claims[i].candidate_name) :
        i \in {j \in DOMAIN claims : claims[j].relationship = rel
                                     /\ Truthy(claims[j].candidate_name)
                                     /\ claims[j].confidence >= HIGH_CONFIDENCE}}

\* contradictions.py 52-53, 63-66: the distinct non-empty high-confidence names of rel
HighConfNames(claims, rel) ==
    {_norm_name(claims[i].candidate_name) :
        i \in {j \in DOMAIN claims : claims[j].relationship = rel
                                     /\ Truthy(claims[j].candidate_name)
                                     /\ claims[j].confidence >= HIGH_CONFIDENCE}} \ {""}

\* the flags of one relationship, before sorting
RelFlags(person, claims, rel) ==
    {"self_parent_conflict" : i \in {j \in DOMAIN claims :
        claims[j].relationship = rel
        /\ _norm_name(claims[j].candidate_name) # ""
        /\ _norm_name(claims[j].candidate_name) = _norm_name(person.name)}}
    \cup
    {"chronology_conflict" : i \in {j \in DOMAIN claims :
        claims[j].relationship = rel
        /\ person.birth_year # 0
        /\ _extract_year(claims[j].rationale) # 0
        /\ _extract_year(claims[j].rationale) > person.birth_year - 12}}
    \cup
    (IF Cardinality(HighConfNames(claims, rel)) > 1
     THEN {"multiple_high_confidence_candidates"} ELSE {})

evaluate_contradictions(person, claims) ==
    LET father_name == TopName(claims, "father", -1, "")
        mother_name == TopName(claims, "mother", -1, "")
    IN  [by_relationship |->
            [father |-> SortedFlags(RelFlags(person, claims, "father")),
             mother |-> SortedFlags(RelFlags(person, claims, "mother"))],
         global_flags |->
            IF father_name # "" /\ mother_name # "" /\ father_name = mother_name
            THEN <<"same_parent_name_for_both_relationships">> ELSE <<>>]


(***************************************************************************)
(* retrieval.py                                                            *)
(*                                                                         *)
(* A connector is [name, items]; how one search call of a connector goes   *)
(* is its number of failing attempts: attempt a (1-based) raises iff       *)
(* a <= fails.  An always-throwing connector has fails = AlwaysFails.      *)
(***************************************************************************)
\* normalize_url on the model's URLs: scheme and host lower-cased, trailing "/",
\* query and fragment dropped
normalize_url(url) ==
    CASE url = "https://example.com/records/1"       -> "https://example.com/records/1"
      [] url = "HTTPS://Example.com/records/1/?q=x"  -> "https://example.com/records/1"
      [] url = "https://example.com/records/2"       -> "https://example.com/records/2"
      [] OTHER                                       -> ""

\* normalize_title_hash on the model's titles: sha1 of the lower-cased,
\* whitespace-collapsed title (the hash is named by its preimage)
normalize_title_hash(title) ==
    CASE title = "Fake Census Record"    -> "h:fake census record"
      [] title = "fake  census record"   -> "h:fake census record"
      [] title = "Parish Register"       -> "h:parish register"
      [] OTHER                           -> "h:"

SeqTake(s, n) == SubSeq(s, 1, Min2(n, Len(s)))

RECURSIVE _search_with_retry(_, _, _, _, _, _)
\* retrieval.py 64-77: the retry loop from `attempt` (0-based) on
_search_with_retry(connector, fails, max_retries, attempt, retries_used, errors) ==
    IF attempt > max_retries
    THEN [items |-> <<>>, retries_used |-> retries_used, errors |-> errors]
    ELSE IF attempt + 1 > fails
    THEN [items |-> connector.items, retries_used |-> retries_used, errors |-> errors]
    ELSE _search_with_retry(connector, fails, max_retries, attempt + 1,
             IF attempt < max_retries THEN retries_used + 1 ELSE retries_used,
             Append(errors, <<connector.name, attempt + 1>>))

RECURSIVE Dedup(_, _, _, _)
\* Mutant: the key is built from the raw url and title, not the normalized ones.
DedupRawKeyMutant(merged, seen, deduped, max_total) ==
    IF merged = <<>> THEN deduped
    ELSE LET item == Head(merged)
             key == <<item.url, item.title>>
         IN  IF key \in seen THEN Dedup(Tail(merged), seen, deduped, max_total)
             ELSE IF Len(deduped) + 1 >= max_total
             THEN Append(deduped, item)
             ELSE Dedup(Tail(merged), seen \cup {key}, Append(deduped, item), max_total)

\* retrieval.py 109-129: first occurrence of each (normalized_url, title hash), capped
Dedup(merged, seen, deduped, max_total) ==
    IF merged = <<>> THEN deduped
    ELSE LET item == Head(merged)
             key == <<normalize_url(item.url), normalize_title_hash(item.title)>>
         IN  IF key \in seen THEN Dedup(Tail(merged), seen, deduped, max_total)
             ELSE IF Len(deduped) + 1 >= max_total
             THEN Append(deduped, item)
             ELSE Dedup(Tail(merged), seen \cup {key}, Append(deduped, item), max_total)

RECURSIVE JoinResults(_, _, _)
\* retrieval.py 103-107: the futures joined in submission order
JoinResults(results, max_results_per_connector, acc) ==
    IF results = <<>> THEN acc
    ELSE LET r == Head(results)
         IN  JoinResults(Tail(results), max_results_per_connector,
                 [retries_used |-> acc.retries_used + r.retries_used,
                  errors |-> acc.errors \o r.errors,
                  merged |-> acc.merged \o SeqTake(r.items, max_results_per_connector)])

\* retrieval.py 90-131 from the per-connector fetch results
RetrievalResult(results, max_results_per_connector, max_total) ==
    LET j == JoinResults(results, max_results_per_connector,
                         [retries_used |-> 0, errors |-> <<>>, merged |-> <<>>])
    IN  [evidence |-> Dedup(j.merged, {}, <<>>, max_total),
         retries_used |-> j.retries_used, errors |-> j.errors]

\* retrieve_evidence as one call: connector i fails its first fails[i] attempts
retrieve_evidence(connectors, fails, max_retries, max_results_per_connector, max_total) ==
    IF connectors = <<>> THEN [evidence |-> <<>>, retries_used |-> 0, errors |-> <<>>]
    ELSE RetrievalResult(
             [i \in DOMAIN connectors |->
                 _search_with_retry(connectors[i], fails[i], max_retries, 0, 0, <<>>)],
             max_results_per_connector, max_total)


(***************************************************************************)
(* extraction.py                                                           *)
(*                                                                         *)
(* One LLM response is [kind, claims]: kind "throw" (generate raised),     *)
(* "malformed" (no JSON payload, or the schema validation failed) or "ok"  *)
(* (a well-formed payload with these raw claims).  A raw confidence is in  *)
(* 1/10000 units.                                                          *)
(***************************************************************************)
\* Mutant: cited ids are kept whether or not they were supplied.
FilterEvidenceIdsMutant(evidence_ids, valid_evidence_ids) == evidence_ids

\* extraction.py 140
FilterEvidenceIds(evidence_ids, valid_evidence_ids) ==
    LET Valid(eid) == eid \in valid_evidence_ids
    IN  SelectSeq(evidence_ids, Valid)

\* extraction.py 137-150: the validated claims of a well-formed payload
_parse_claims_payload(response, valid_evidence_ids) ==
    [i \in DOMAIN response.claims |->
        LET claim == response.claims[i]
        IN  [relationship |-> claim.relationship,
             candidate_name |-> IF Truthy(Strip(claim.candidate_name))
                                THEN Strip(claim.candidate_name) ELSE None,
             confidence |-> RoundDiv(claim.confidence, 10),
             rationale |-> claim.rationale,
             evidence_ids |-> FilterEvidenceIds(claim.evidence_ids, valid_evidence_ids)]]

\* ClaimItem's field constraints (extraction.py 20-25), confidence in 1/10000
ValidClaim(claim) ==
    /\ claim.relationship \in {"father", "mother"}
    /\ claim.confidence >= 0 /\ claim.confidence <= 10000

\* extraction.py 113-115, 136: no JSON payload, or the envelope fails validation
ParseFails(response) ==
    \/ response.kind = "malformed"
    \/ \E i \in DOMAIN response.claims : ~ValidClaim(response.claims[i])

\* Mutant: a repair output that is malformed too is passed off as a valid, empty parse.
RepairPassMutant(second, valid_evidence_ids) ==
    IF second.kind # "throw" /\ ~ParseFails(second)
    THEN [claims |-> _parse_claims_payload(second, valid_evidence_ids), parse_valid |-> TRUE,
          retries_used |-> 1, repairs_used |-> 1,
          errors |-> <<"Primary parse failed">>, llm_calls |-> 2]
    ELSE [claims |-> <<>>, parse_valid |-> TRUE, retries_used |-> 1, repairs_used |-> 1,
          errors |-> <<"Primary parse failed">>, llm_calls |-> 2]

\* extraction.py 201-225: the single repair call and its parse
RepairPass(second, valid_evidence_ids) ==
    IF second.kind # "throw" /\ ~ParseFails(second)
    THEN [claims |-> _parse_claims_payload(second, valid_evidence_ids), parse_valid |-> TRUE,
          retries_used |-> 1, repairs_used |-> 1,
          errors |-> <<"Primary parse failed">>, llm_calls |-> 2]
    ELSE [claims |-> <<>>, parse_valid |-> FALSE, retries_used |-> 1, repairs_used |-> 1,
          errors |-> <<"Primary parse failed", "Repair parse failed">>, llm_calls |-> 2]

\* Mutant: a failed request is treated like malformed output and repaired.
RequestFailedMutant(second, valid_evidence_ids) == RepairPass(second, valid_evidence_ids)

\* extraction.py 177-187: the primary call raised; nothing else is tried
RequestFailed(second, valid_evidence_ids) ==
    [claims |-> <<>>, parse_valid |-> FALSE, retries_used |-> 0, repairs_used |-> 0,
     errors |-> <<"LLM request failed">>, llm_calls |-> 1]

\* extraction.py 153-225; first and second are the responses of the primary and the repair call
extract_claims_for_person(has_client, first, second, valid_evidence_ids) ==
    IF ~has_client
    THEN [claims |-> <<>>, parse_valid |-> TRUE, retries_used |-> 0, repairs_used |-> 0,
          errors |-> <<"LLM backend disabled or missing credentials">>, llm_calls |-> 0]
    ELSE IF first.kind = "throw"
    THEN RequestFailed(second, valid_evidence_ids)
    ELSE IF ~ParseFails(first)
    THEN [claims |-> _parse_claims_payload(first, valid_evidence_ids), parse_valid |-> TRUE,
          retries_used |-> 0, repairs_used |-> 0, errors |-> <<>>, llm_calls |-> 1]
    ELSE RepairPass(second, valid_evidence_ids)


(***************************************************************************)
(* The database and the in-flight run_research_job call.                   *)
(***************************************************************************)
VARIABLES
    people,      \* Person rows, in id order
    job,         \* the ResearchJob row
    evidence,    \* EvidenceItem rows; a row's id is its index
    claimRows,   \* ExtractedClaim rows
    proposals,   \* ParentProposal rows; a row's id is its index
    decisions,   \* ProposalDecision rows
    questions,   \* ResearchQuestion rows; a row's id is its index
    audit,       \* ApplyAuditEvent rows
    run,         \* locals of the run_research_job call in progress
    now,         \* the clock behind _now()
    runs,        \* calls of run_research_job that passed the completed check
    last,        \* outcome of the last service call: what it returned or raised
    synth,       \* a direct call of synthesize_proposals: its arguments and its result
    retr,        \* a retrieve_evidence call seen thread by thread
    extr,        \* a direct call of extract_claims_for_person: arguments and outcome
    contra       \* a direct call of evaluate_contradictions: arguments and result

dbVars == <<people, job, evidence, claimRows, proposals, decisions, questions, audit>>

MaxRuns == 2

MAX_RETRIES == 1

MAX_RESULTS_PER_CONNECTOR == 6

MAX_TOTAL == 24

AlwaysFails == MAX_RETRIES + 1

ConnAlpha ==
    [name |-> "alpha",
     items |-> <<[source |-> "alpha", title |-> "Fake Census Record",
                  url |-> "https://example.com/records/1"]>>]

ConnBeta ==
    [name |-> "beta",
     items |-> <<[source |-> "beta", title |-> "fake  census record",
                  url |-> "HTTPS://Example.com/records/1/?q=x"],
                 [source |-> "beta", title |-> "Parish Register",
                  url |-> "https://example.com/records/2"]>>]

InitPeople ==
    <<[xref |-> 1, name |-> "Jane Doe", sex |-> "F", birth_year |-> 1930,
       father_xref |-> 0, mother_xref |-> 0,
       is_living |-> FALSE, can_use_data |-> TRUE, can_llm_research |-> TRUE],
      [xref |-> 2, name |-> "James Doe", sex |-> "", birth_year |-> 0,
       father_xref |-> 0, mother_xref |-> 0,
       is_living |-> FALSE, can_use_data |-> TRUE, can_llm_research |-> TRUE]>>

\* search_uploaded_documents_for_person: the indexed uploads matching each person
UploadedHits(person) ==
    IF person.xref = 1
    THEN <<[source |-> "user_uploads", title |-> "letter.pdf", url |-> ""]>>
    ELSE <<>>

RECURSIVE SelectFrom(_, _, _, _)
\* jobs.py 73-84: the selection loop over the people in id order
SelectFrom(rows, people_xrefs, max_people, selected) ==
    IF rows = <<>> \/ Len(selected) >= max_people THEN selected
    ELSE LET person == Head(rows)
             skip == \/ (people_xrefs # <<>> /\ person.xref \notin SeqRange(people_xrefs))
                     \/ (person.father_xref # 0 /\ person.mother_xref # 0)
                     \/ (person.is_living /\ ~(person.can_use_data /\ person.can_llm_research))
         IN  SelectFrom(Tail(rows), people_xrefs, max_people,
                        IF skip THEN selected ELSE Append(selected, person.xref))

\* jobs.py 64-84 (max_people >= 1)
_select_candidates(rows, people_xrefs, max_people) ==
    SelectFrom(rows, people_xrefs, max_people, <<>>)

EmptyStats(xrefs) ==
    [person_xrefs |-> xrefs, errors |-> <<>>,
     stage_durations |-> [retrieval |-> 0, extraction |-> 0, verification |-> 0, synthesis |-> 0]]

\* jobs.py 87-124
create_research_job(rows, people_xrefs, max_people) ==
    LET selected_xrefs == _select_candidates(rows, people_xrefs, max_people)
    IN  [status |-> "queued", stage |-> "queued", target_count |-> Len(selected_xrefs),
         completed_count |-> 0, error_count |-> 0, progress |-> 0, retry_count |-> 0,
         parse_repair_count |-> 0, llm_backend |-> "none", last_error |-> None,
         started_at |-> 0, finished_at |-> 0, stats |-> EmptyStats(selected_xrefs)]

NoOutcome ==
    [claims |-> <<>>, parse_valid |-> TRUE, retries_used |-> 0, repairs_used |-> 0,
     errors |-> <<>>, llm_calls |-> 0]

NoContradictions ==
    [by_relationship |-> [father |-> <<>>, mother |-> <<>>], global_flags |-> <<>>]

IdleRun ==
    [pc |-> "idle", stats |-> EmptyStats(<<>>), connectors |-> <<>>, has_client |-> FALSE,
     people |-> <<>>, idx |-> 0, retrieval_errors |-> <<>>, evidence_rows |-> <<>>,
     extraction |-> NoOutcome, contradictions |-> NoContradictions]

NoCall == [op |-> "none", raised |-> FALSE, arg |-> 0]

JobInit ==
    /\ people = InitPeople
    /\ job = create_research_job(InitPeople, <<>>, 10)
    /\ evidence = <<>>
    /\ claimRows = <<>>
    /\ proposals = <<>>
    /\ decisions = <<>>
    /\ questions = <<>>
    /\ audit = <<>>
    /\ run = IdleRun
    /\ now = 0
    /\ runs = 0
    /\ last = NoCall

\* no direct synthesize_proposals call
NoSynth ==
    [pc |-> "none", claims |-> <<>>, evidence_sources |-> <<>>,
     contradictions |-> NoContradictions, drafts |-> <<>>]

\* no direct evaluate_contradictions call
NoContra ==
    [pc |-> "none", person |-> [name |-> "", birth_year |-> 0], claims |-> <<>>,
     result |-> NoContradictions]

\* no direct extract_claims_for_person call
NoExtr ==
    [pc |-> "none", has_client |-> FALSE, first |-> [kind |-> "ok", claims |-> <<>>],
     second |-> [kind |-> "ok", claims |-> <<>>], valid_evidence_ids |-> {},
     outcome |-> NoOutcome]

\* no retrieve_evidence call under observation
NoRetr ==
    [pc |-> "none", connectors |-> <<>>, fails |-> <<>>, max_retries |-> 0,
     max_results_per_connector |-> 0, max_total |-> 0, max_parallel_connectors |-> 0,
     semaphore |-> 0, workers |-> <<>>, joined |-> 0,
     retries_used |-> 0, errors |-> <<>>, merged |-> <<>>, evidence |-> <<>>]

PersonByXref(rows, xref) == rows[CHOOSE i \in DOMAIN rows : rows[i].xref = xref]

\* jobs.py 59-61, with every measured stage taking one unit of time
_record_stage_duration(stats, stage) ==
    [stats EXCEPT !.stage_durations[stage] = @ + 1]

\* Mutant: a completed job is not recognised, so run starts over.
IsCompletedMutant(j) == FALSE

\* jobs.py 249
IsCompleted(j) == j.status = "completed"

\* jobs.py 244-250 on a completed job: the job is returned as it is
RunCompletedJob ==
    /\ run.pc = "idle"
    /\ IsCompleted(job)
    /\ last' = [op |-> "run_completed", raised |-> FALSE, arg |-> 0]
    /\ UNCHANGED <<dbVars, run, now, runs, synth, retr, extr, contra>>

\* jobs.py 252-258
RunStart ==
    /\ run.pc = "idle"
    /\ ~IsCompleted(job)
    /\ runs < MaxRuns
    /\ runs' = runs + 1
    /\ now' = IF job.started_at = 0 THEN now + 1 ELSE now
    /\ job' = [job EXCEPT !.status = "running", !.stage = "initializing",
                          !.started_at = IF @ = 0 THEN now + 1 ELSE @]
    /\ run' = [IdleRun EXCEPT !.pc = "resolve", !.stats = job.stats]
    /\ last' = [op |-> "run", raised |-> FALSE, arg |-> 0]
    /\ UNCHANGED <<people, evidence, claimRows, proposals, decisions, questions, audit, synth, retr, extr, contra>>

\* rounded percentage, in hundredths of a percent: round(idx / max(1, n) * 100.0, 2)
Progress(idx, n) == RoundDiv(idx * 10000, Max2(1, n))

\* Mutant: the people of the snapshot are loaded in descending id order.
RunPeopleMutant(rows, xrefs) ==
    LET InSnapshot(person) == person.xref \in SeqRange(xrefs)
        kept == SelectSeq(rows, InSnapshot)
    IN  [i \in DOMAIN kept |-> kept[Len(kept) + 1 - i].xref]

\* jobs.py 273-275: the people of the snapshot that exist, in id order
RunPeople(rows, xrefs) ==
    LET InSnapshot(person) == person.xref \in SeqRange(xrefs)
        kept == SelectSeq(rows, InSnapshot)
    IN  [i \in DOMAIN kept |-> kept[i].xref]

\* jobs.py 261-285: configs, runtime and connectors resolved once; the people loaded
Resolve(configs) ==
    /\ run.pc = "resolve"
    /\ \E config \in configs :
        LET connectors == config.connectors
            has_client == config.has_client
            snapshot == run.stats.person_xrefs
            xrefs == IF snapshot = <<>> THEN _select_candidates(people, <<>>, 10) ELSE snapshot
            run_people == RunPeople(people, xrefs)
            backend == IF has_client THEN "openai" ELSE "none"
        IN  IF run_people = <<>>
            THEN /\ job' = [job EXCEPT !.llm_backend = backend, !.status = "completed",
                                       !.stage = "completed", !.progress = 10000,
                                       !.finished_at = now + 1, !.stats = run.stats]
                 /\ now' = now + 1
                 /\ run' = IdleRun
            ELSE /\ job' = [job EXCEPT !.llm_backend = backend]
                 /\ now' = now
                 /\ run' = [run EXCEPT !.pc = "retrieval", !.connectors = connectors,
                                       !.has_client = has_client, !.people = run_people,
                                       !.idx = 1]
    /\ UNCHANGED <<people, evidence, claimRows, proposals, decisions, questions, audit, runs, last, synth, retr, extr, contra>>


ANSWER_LIMIT == 8

RECURSIVE NewestFirst(_, _)
\* question ids ordered by updated_at desc, id desc
NewestFirst(ids, rows) ==
    IF ids = {} THEN <<>>
    ELSE LET m == CHOOSE i \in ids : \A k \in ids :
                      \/ rows[i].updated_at > rows[k].updated_at
                      \/ (rows[i].updated_at = rows[k].updated_at /\ i >= k)
         IN  <<m>> \o NewestFirst(ids \ {m}, rows)

\* jobs.py 230-241: the ids of the person's answered questions, newest first, at most 8
_answered_questions_for_person(rows, person_xref) ==
    SeqTake(NewestFirst({i \in DOMAIN rows : rows[i].person_xref = person_xref
                                              /\ rows[i].status = "answered"}, rows),
            ANSWER_LIMIT)

\* jobs.py 314-385: the EvidenceItem rows of one person, in insertion order
EvidenceRowsFor(person, retrieval, uploaded_hits, answered, question_rows) ==
    LET fallback ==
            IF retrieval.evidence = <<>>
            THEN <<[person_xref |-> person.xref, source |-> "system",
                    title |-> "No evidence found", normalized_url |-> "",
                    normalized_title_hash |-> "no-evidence", hash_arg |-> 0,
                    retrieval_rank |-> 0, note |-> ""]>>
            ELSE <<>>
        n == Len(retrieval.evidence)
        found ==
            [i \in 1..n |->
                [person_xref |-> person.xref, source |-> retrieval.evidence[i].source,
                 title |-> retrieval.evidence[i].title,
                 normalized_url |-> normalize_url(retrieval.evidence[i].url),
                 normalized_title_hash |-> normalize_title_hash(retrieval.evidence[i].title),
                 hash_arg |-> 0, retrieval_rank |-> i, note |-> ""]]
        u == Len(uploaded_hits)
        uploads ==
            [i \in 1..u |->
                [person_xref |-> person.xref, source |-> uploaded_hits[i].source,
                 title |-> uploaded_hits[i].title, normalized_url |-> uploaded_hits[i].url,
                 normalized_title_hash |-> "user-upload", hash_arg |-> n + i,
                 retrieval_rank |-> n + i, note |-> ""]]
        HasText(qid) == Strip(question_rows[qid].answer) # ""
        used == SelectSeq(answered, HasText)
        answers ==
            [i \in 1..Len(used) |->
                [person_xref |-> person.xref, source |-> "user_answers",
                 title |-> "User answer", normalized_url |-> "",
                 normalized_title_hash |-> "user-answer", hash_arg |-> used[i],
                 retrieval_rank |-> n + u + i, note |-> Strip(question_rows[used[i]].answer)]]
    IN  fallback \o found \o uploads \o answers

\* jobs.py 311-312: "<xref> retrieval: <connector> attempt <n>: <exc>" for each error
RetrievalErrors(xref, errors) ==
    [i \in DOMAIN errors |->
        [person_xref |-> xref, stage |-> "retrieval", detail |-> errors[i][1],
         attempt |-> errors[i][2]]]

\* jobs.py 398-399: "<xref> extraction: <err>" for each error
ExtractionErrors(xref, errors) ==
    [i \in DOMAIN errors |->
        [person_xref |-> xref, stage |-> "extraction", detail |-> errors[i], attempt |-> 0]]

\* jobs.py 288-385: the retrieval stage of the person at run.idx
Retrieval(failPatterns) ==
    /\ run.pc = "retrieval"
    /\ \E fails \in failPatterns :
        LET person == PersonByXref(people, run.people[run.idx])
            retrieval == retrieve_evidence(run.connectors, fails, MAX_RETRIES,
                                           MAX_RESULTS_PER_CONNECTOR, MAX_TOTAL)
            uploaded_hits == SeqTake(UploadedHits(person), 6)
            answered == _answered_questions_for_person(questions, person.xref)
            rows == EvidenceRowsFor(person, retrieval, uploaded_hits, answered, questions)
            stats1 == _record_stage_duration(run.stats, "retrieval")
        IN  /\ job' = [job EXCEPT !.stage = "retrieval",
                                  !.retry_count = @ + retrieval.retries_used]
            /\ evidence' = evidence \o rows
            /\ run' = [run EXCEPT
                        !.pc = "extraction",
                        !.stats = [stats1 EXCEPT !.errors =
                                      @ \o RetrievalErrors(person.xref, retrieval.errors)],
                        !.retrieval_errors = retrieval.errors,
                        !.evidence_rows = [i \in 1..Len(rows) |-> Len(evidence) + i]]
    /\ UNCHANGED <<people, claimRows, proposals, decisions, questions, audit, now, runs, last, synth, retr, extr, contra>>

(***************************************************************************)
(* The language model's answers.  A reply is [kind, payload]; the payload  *)
(* names the claims of a well-formed answer, which cite the first evidence *)
(* id listed in the prompt and/or an id that was never supplied (0).       *)
(***************************************************************************)
RawClaim(relationship, candidate_name, confidence, rationale, evidence_ids) ==
    [relationship |-> relationship, candidate_name |-> candidate_name,
     confidence |-> confidence, rationale |-> rationale, evidence_ids |-> evidence_ids]

Payload(name, first_id) ==
    CASE name = "named" ->
            <<RawClaim("father", "John Doe", 8000, "census 1890", <<first_id, 0>>)>>
      [] name = "named_spaced" ->
            <<RawClaim("father", "john  doe", 8000, "census 1890", <<first_id>>)>>
      [] name = "uncited" ->
            <<RawClaim("mother", "Mary Smith", 8800, "", <<0>>)>>
      [] name = "conflict" ->
            <<RawClaim("father", "John Doe", 9000, "", <<first_id>>),
              RawClaim("father", "James Doe", 8496, "baptism 1925", <<first_id>>)>>
      [] name = "weak" ->
            <<RawClaim("mother", "Jane Doe", 3000, "", <<first_id>>)>>
      [] OTHER -> <<>>

LLMResponse(reply, first_id) ==
    [kind |-> reply.kind, claims |-> Payload(reply.payload, first_id)]

Reply(kind, payload) == [kind |-> kind, payload |-> payload]

ReplyPair(first, second) == [first |-> first, second |-> second]

\* jobs.py 387-399: the extraction stage
Extraction(responsePairs) ==
    /\ run.pc = "extraction"
    /\ \E pair \in responsePairs :
        LET person == PersonByXref(people, run.people[run.idx])
            first_id == IF run.evidence_rows = <<>> THEN 0 ELSE run.evidence_rows[1]
            first == LLMResponse(pair.first, first_id)
            second == LLMResponse(pair.second, first_id)
            extraction == extract_claims_for_person(run.has_client, first, second,
                                                    SeqRange(run.evidence_rows))
            stats1 == _record_stage_duration(run.stats, "extraction")
        IN  /\ job' = [job EXCEPT !.stage = "extraction",
                                  !.retry_count = @ + extraction.retries_used,
                                  !.parse_repair_count = @ + extraction.repairs_used]
            /\ run' = [run EXCEPT
                        !.pc = "verification",
                        !.stats = [stats1 EXCEPT !.errors =
                                      @ \o ExtractionErrors(person.xref, extraction.errors)],
                        !.extraction = extraction]
    /\ UNCHANGED <<people, evidence, claimRows, proposals, decisions, questions, audit, now, runs, last, synth, retr, extr, contra>>

\* jobs.py 401-404: the verification stage
Verification ==
    /\ run.pc = "verification"
    /\ LET person == PersonByXref(people, run.people[run.idx])
       IN  /\ job' = [job EXCEPT !.stage = "verification"]
           /\ run' = [run EXCEPT
                       !.pc = "synthesis",
                       !.stats = _record_stage_duration(run.stats, "verification"),
                       !.contradictions = evaluate_contradictions(person, run.extraction.claims)]
    /\ UNCHANGED <<people, evidence, claimRows, proposals, decisions, questions, audit, now, runs, last, synth, retr, extr, contra>>


\* the rel_flags of jobs.py 418-420 and the flags of scoring.py 144-146
MergedFlags(contradictions, relationship) ==
    SortedFlags(SeqRange(contradictions.by_relationship[relationship])
                \cup SeqRange(contradictions.global_flags))

\* jobs.py 454-457, 463: sorted(set(global flags + every relationship's flags))
AllFlags(contradictions) ==
    SortedFlags(SeqRange(contradictions.global_flags)
                \cup SeqRange(contradictions.by_relationship["father"])
                \cup SeqRange(contradictions.by_relationship["mother"]))

\* the one job of the model; the questions of earlier jobs of the session have other ids
CurrentJobId == 1

\* Mutant: the lookup for an existing question never finds one.
QuestionExistsMutant(rows, w) == FALSE

\* jobs.py 143-152: a row of the job with the same person, relationship and text
QuestionExists(rows, w) ==
    \E i \in DOMAIN rows :
        /\ rows[i].job_id = w.job_id
        /\ rows[i].person_xref = w.person_xref
        /\ rows[i].relationship = w.relationship
        /\ rows[i].question = w.question

RECURSIVE AddQuestions(_, _)
\* jobs.py 134-164 applied to each wanted question in turn
AddQuestions(rows, wanted) ==
    IF wanted = <<>> THEN rows
    ELSE LET w == Head(wanted)
         IN  AddQuestions(IF QuestionExists(rows, w) THEN rows ELSE Append(rows, w),
                          Tail(wanted))

NewQuestion(xref, relationship, question, created) ==
    [job_id |-> CurrentJobId, person_xref |-> xref, relationship |-> relationship,
     status |-> "pending", question |-> question, answer |-> "", updated_at |-> created]

RECURSIVE GapQuestions(_, _, _)
\* jobs.py 175-214: three questions per draft without a candidate
GapQuestions(xref, drafts, created) ==
    IF drafts = <<>> THEN <<>>
    ELSE LET d == Head(drafts)
         IN  (IF Truthy(d.candidate_name) THEN <<>>
              ELSE <<NewQuestion(xref, d.relationship, "name hint", created),
                     NewQuestion(xref, d.relationship, "records", created),
                     NewQuestion(xref, d.relationship, "contacts", created)>>)
             \o GapQuestions(xref, Tail(drafts), created)

\* jobs.py 167-227
_create_gap_questions_for_person(rows, xref, drafts, contradiction_flags, created) ==
    AddQuestions(rows,
        GapQuestions(xref, drafts, created)
        \o (IF contradiction_flags # <<>>
            THEN <<NewQuestion(xref, "general", "conflicting leads", created)>>
            ELSE <<>>))

\* Mutant: every person with a retrieval error or an invalid parse counts twice.
PersonErrorIncrementMutant(retrieval_errors, parse_valid) ==
    IF retrieval_errors # <<>> \/ ~parse_valid THEN 2 ELSE 0

\* jobs.py 466-467
PersonErrorIncrement(retrieval_errors, parse_valid) ==
    IF retrieval_errors # <<>> \/ ~parse_valid THEN 1 ELSE 0

\* jobs.py 406-472: synthesis, the person's rows, the counters, the commit
Synthesis ==
    /\ run.pc = "synthesis"
    /\ LET xref == run.people[run.idx]
           claims == run.extraction.claims
           evidence_sources ==
               [id \in SeqRange(run.evidence_rows) |-> evidence[id].source]
           stats1 == _record_stage_duration(run.stats, "synthesis")
           last_person == run.idx = Len(run.people)
       IN  \E drafts \in {synthesize_proposals(claims, evidence_sources, run.contradictions)} :
           /\ claimRows' = claimRows \o
                [i \in DOMAIN claims |->
                    [person_xref |-> xref, relationship |-> claims[i].relationship,
                     candidate_name |-> claims[i].candidate_name,
                     confidence |-> claims[i].confidence,
                     evidence_ids |-> claims[i].evidence_ids,
                     contradiction_flags |->
                         MergedFlags(run.contradictions, claims[i].relationship),
                     parse_valid |-> run.extraction.parse_valid]]
           /\ proposals' = proposals \o
                [i \in DOMAIN drafts |->
                    [person_xref |-> xref, relationship |-> drafts[i].relationship,
                     candidate_name |-> drafts[i].candidate_name,
                     confidence |-> drafts[i].confidence, status |-> drafts[i].status,
                     notes |-> drafts[i].notes, evidence_ids |-> drafts[i].evidence_ids,
                     contradiction_flags |-> drafts[i].contradiction_flags]]
           /\ questions' = _create_gap_questions_for_person(
                               questions, xref, drafts, AllFlags(run.contradictions), now)
           /\ job' = [job EXCEPT
                       !.stage = "synthesis",
                       !.error_count = @ + PersonErrorIncrement(run.retrieval_errors,
                                                                run.extraction.parse_valid),
                       !.completed_count = run.idx,
                       !.progress = Progress(run.idx, Len(run.people)),
                       !.stats = stats1]
           /\ run' = [run EXCEPT !.pc = IF last_person THEN "finish" ELSE "retrieval",
                                 !.idx = IF last_person THEN @ ELSE @ + 1,
                                 !.stats = stats1,
                                 !.retrieval_errors = <<>>, !.evidence_rows = <<>>,
                                 !.extraction = NoOutcome,
                                 !.contradictions = NoContradictions]
    /\ UNCHANGED <<people, evidence, decisions, audit, now, runs, last, synth, retr, extr, contra>>

\* jobs.py 474-481
Complete ==
    /\ run.pc = "finish"
    /\ job' = [job EXCEPT !.status = "completed", !.stage = "completed", !.progress = 10000,
                          !.finished_at = now + 1, !.stats = run.stats]
    /\ now' = now + 1
    /\ run' = IdleRun
    /\ UNCHANGED <<people, evidence, claimRows, proposals, decisions, questions, audit, runs, last, synth, retr, extr, contra>>

TryStages == {"resolve", "retrieval", "extraction", "verification", "synthesis"}

\* the text of the exception raised in a stage
ExceptionText(stage) ==
    CASE stage = "resolve"      -> "provider configuration unreadable"
      [] stage = "retrieval"    -> "document index unavailable"
      [] stage = "extraction"   -> "maximum recursion depth exceeded"
      [] stage = "verification" -> "person record unreadable"
      [] stage = "synthesis"    -> "unknown relationship"

\* Mutant: the handler records the failure but leaves the job running.
FailedStatusMutant == "running"

\* jobs.py 486
FailedStatus == "failed"

\* jobs.py 483-493: an exception raised inside the try block, in the stage at run.pc
RaiseFatal ==
    /\ run.pc \in TryStages
    /\ job' = [job EXCEPT
                !.status = FailedStatus, !.stage = "failed",
                !.last_error = ExceptionText(run.pc),
                !.finished_at = now + 1,
                !.stats = [job.stats EXCEPT !.errors =
                              Append(@, [person_xref |-> 0, stage |-> "fatal",
                                         detail |-> ExceptionText(run.pc),
                                         attempt |-> 0])]]
    /\ now' = now + 1
    /\ run' = IdleRun
    /\ UNCHANGED <<people, evidence, claimRows, proposals, decisions, questions, audit, runs, last, synth, retr, extr, contra>>


(***************************************************************************)
(* The orchestrator under its environment: which connectors and client the *)
(* configuration yields, how each connector call and each model call goes. *)
(***************************************************************************)
JobConfigs ==
    {[connectors |-> <<ConnAlpha, ConnBeta>>, has_client |-> TRUE],
     [connectors |-> <<>>, has_client |-> FALSE]}

JobFailPatterns == {<<0, 0>>, <<AlwaysFails, 0>>}

JobReplies ==
    {ReplyPair(Reply("ok", "named"), Reply("ok", "none")),
     ReplyPair(Reply("malformed", "none"), Reply("ok", "conflict")),
     ReplyPair(Reply("malformed", "none"), Reply("throw", "none"))}


(***************************************************************************)
(* Review: decide_proposal                                                 *)
(***************************************************************************)
MaxDecisions == 2

\* Mutant: the citation check of approval is dropped.
ApprovalErrorMutant(proposal) ==
    IF ~Truthy(proposal.candidate_name) THEN "Cannot approve proposal without candidate_name"
    ELSE ""

\* jobs.py 703-707: the error approval raises, "" when it raises none
ApprovalError(proposal) ==
    IF proposal.evidence_ids = <<>> THEN "Cannot approve proposal without citations"
    ELSE IF ~Truthy(proposal.candidate_name)
    THEN "Cannot approve proposal without candidate_name"
    ELSE ""

\* jobs.py 711-719: body fields that are absent are None (confidence: -1)
EditProposal(proposal, body) ==
    [proposal EXCEPT
        !.candidate_name =
            IF body.candidate_name = None THEN @
            ELSE IF Strip(body.candidate_name) = "" THEN None ELSE Strip(body.candidate_name),
        !.confidence = IF body.confidence = -1 THEN @ ELSE Max2(0, Min2(1000, body.confidence)),
        !.notes = IF body.notes = None THEN @ ELSE body.notes,
        !.status = "pending_review"]

NoBody == [candidate_name |-> None, confidence |-> -1, notes |-> None]

EditBodies ==
    {[candidate_name |-> "Jane Doee", confidence |-> -1, notes |-> None],
     [candidate_name |-> "  ", confidence |-> 1500, notes |-> "checked"]}

\* jobs.py 694-734
DecideProposal(proposal_id, action, body) ==
    /\ run.pc = "idle"
    /\ Len(decisions) < MaxDecisions
    /\ proposal_id \in DOMAIN proposals
    /\ LET proposal == proposals[proposal_id]
           error == IF action = "approve" THEN ApprovalError(proposal) ELSE ""
           decided ==
               CASE action = "approve" -> [proposal EXCEPT !.status = "approved"]
                 [] action = "reject"  -> [proposal EXCEPT !.status = "rejected"]
                 [] action = "edit"    -> EditProposal(proposal, body)
       IN  IF error # ""
           THEN /\ last' = [op |-> action, raised |-> TRUE, arg |-> proposal_id]
                /\ UNCHANGED <<proposals, decisions>>
           ELSE /\ proposals' = [proposals EXCEPT ![proposal_id] = decided]
                /\ decisions' = Append(decisions,
                       [proposal_id |-> proposal_id, action |-> action,
                        notes |-> IF body.notes = None THEN "" ELSE body.notes])
                /\ last' = [op |-> action, raised |-> FALSE, arg |-> proposal_id]
    /\ UNCHANGED <<people, job, evidence, claimRows, questions, audit, run, now, runs, synth, retr, extr, contra>>

Decide ==
    \E proposal_id \in DOMAIN proposals :
        \/ DecideProposal(proposal_id, "approve", NoBody)
        \/ DecideProposal(proposal_id, "reject", NoBody)
        \/ \E body \in EditBodies : DecideProposal(proposal_id, "edit", body)

(***************************************************************************)
(* apply.py                                                                *)
(***************************************************************************)
MaxAudit == 2

\* apply.py 19-28: xrefs are "@I<n>@", modelled by n
_next_xref(rows) ==
    LET nums == {rows[i].xref : i \in DOMAIN rows} \cup {0}
    IN  1 + CHOOSE m \in nums : \A k \in nums : k <= m

\* SequenceMatcher(a, b).ratio() >= 0.93 on the model's normalized names
RatioAtLeast93(left, right) ==
    \/ left = right
    \/ {left, right} = {"jane doe", "jane doee"}

\* apply.py 35-42
_is_name_match(existing_name, candidate_name) ==
    LET left == _norm_name(existing_name)
        right == _norm_name(candidate_name)
    IN  IF left = "" \/ right = "" THEN FALSE
        ELSE IF left = right THEN TRUE
        ELSE RatioAtLeast93(left, right)

RECURSIVE FindFrom(_, _, _)
\* apply.py 45-52: the first matching person in row order, 0 when there is none
FindFrom(rows, candidate_name, sex) ==
    IF rows = <<>> THEN 0
    ELSE LET person == Head(rows)
         IN  IF person.sex # "" /\ sex # "" /\ person.sex # sex
             THEN FindFrom(Tail(rows), candidate_name, sex)
             ELSE IF _is_name_match(person.name, candidate_name) THEN person.xref
             ELSE FindFrom(Tail(rows), candidate_name, sex)

\* Mutant: no existing person is ever found.
FindNobodyMutant(rows, candidate_name, sex) == 0

_find_existing_person(rows, candidate_name, sex) == FindFrom(rows, candidate_name, sex)

\* Mutant: pending proposals are applied as well.
IsApprovedMutant(proposal) == proposal.status \in {"approved", "pending_review"}

\* apply.py 74
IsApproved(proposal) == proposal.status = "approved"

AuditEvent(proposal_id, proposal, action, detail, created_person_xref) ==
    [proposal_id |-> proposal_id, child_xref |-> proposal.person_xref,
     relationship |-> proposal.relationship, action |-> action, detail |-> detail,
     created_person_xref |-> created_person_xref]

\* Mutant: a skipped proposal is reported but leaves no audit event.
SkipMutant(st, proposal_id, proposal, reason, detail) ==
    [st EXCEPT !.skipped = Append(@, [proposal_id |-> proposal_id, reason |-> reason])]

Skip(st, proposal_id, proposal, reason, detail) ==
    [st EXCEPT !.skipped = Append(@, [proposal_id |-> proposal_id, reason |-> reason]),
               !.audit = Append(@, AuditEvent(proposal_id, proposal, "skipped", detail, 0))]

\* Mutant: a father link that is already set does not stop the proposal.
FatherAlreadySetMutant(relationship, child) == FALSE

\* apply.py 136: relationship == "father" and child.father_xref
FatherAlreadySet(relationship, child) == relationship = "father" /\ child.father_xref # 0

\* apply.py 151: relationship == "mother" and child.mother_xref
MotherAlreadySet(relationship, child) == relationship = "mother" /\ child.mother_xref # 0

\* apply.py 84-206: one iteration of the loop, on the rows as the earlier ones left them
ApplyOne(st, proposal_id) ==
    LET proposal == st.proposals[proposal_id]
        relationship == proposal.relationship
        candidate_name == IF proposal.candidate_name = None THEN ""
                          ELSE Strip(proposal.candidate_name)
        child_idx == {i \in DOMAIN st.people : st.people[i].xref = proposal.person_xref}
        ci == CHOOSE i \in child_idx : \A k \in child_idx : i <= k
        child == st.people[ci]
        expected_sex == IF relationship = "father" THEN "M" ELSE "F"
        existing == _find_existing_person(st.people, candidate_name, expected_sex)
        parent_xref == IF existing # 0 THEN existing ELSE _next_xref(st.people)
        created == [xref |-> parent_xref, name |-> candidate_name, sex |-> expected_sex,
                    birth_year |-> 0, father_xref |-> 0, mother_xref |-> 0,
                    is_living |-> FALSE, can_use_data |-> TRUE, can_llm_research |-> TRUE]
        with_parent == IF existing # 0 THEN st.people ELSE Append(st.people, created)
    IN  IF candidate_name = ""
        THEN Skip(st, proposal_id, proposal, "candidate_missing", "Candidate name is empty.")
        ELSE IF proposal.evidence_ids = <<>>
        THEN Skip(st, proposal_id, proposal, "missing_citations", "Proposal has no citations.")
        ELSE IF child_idx = {}
        THEN Skip(st, proposal_id, proposal, "child_not_found", "Child not found in session.")
        ELSE IF FatherAlreadySet(relationship, child)
        THEN Skip(st, proposal_id, proposal, "father_already_set", "Father is already linked.")
        ELSE IF MotherAlreadySet(relationship, child)
        THEN Skip(st, proposal_id, proposal, "mother_already_set", "Mother is already linked.")
        ELSE [st EXCEPT
                !.people = IF relationship = "father"
                           THEN [with_parent EXCEPT ![ci].father_xref = parent_xref]
                           ELSE [with_parent EXCEPT ![ci].mother_xref = parent_xref],
                !.proposals = [@ EXCEPT ![proposal_id].status = "applied"],
                !.applied_updates = @ + 1,
                !.audit = Append(@, AuditEvent(proposal_id, proposal, "applied",
                                     "Applied approved proposal.",
                                     IF existing # 0 THEN 0 ELSE parent_xref))]

RECURSIVE ApplyLoop(_, _)
ApplyLoop(st, ids) ==
    IF ids = <<>> THEN st ELSE ApplyLoop(ApplyOne(st, Head(ids)), Tail(ids))

\* apply.py 71-209
apply_approved_proposals(person_rows, proposal_rows, audit_rows) ==
    LET ids == SortedInts({i \in DOMAIN proposal_rows : IsApproved(proposal_rows[i])})
    IN  ApplyLoop([people |-> person_rows, proposals |-> proposal_rows, audit |-> audit_rows,
                   applied_updates |-> 0, skipped |-> <<>>], ids)

ApplyApproved ==
    /\ run.pc = "idle"
    /\ Len(audit) < MaxAudit
    /\ LET result == apply_approved_proposals(people, proposals, audit)
       IN  /\ people' = result.people
           /\ proposals' = result.proposals
           /\ audit' = result.audit
           /\ last' = [op |-> "apply", raised |-> FALSE, arg |-> result.applied_updates,
                        skipped |-> result.skipped]
    /\ UNCHANGED <<job, evidence, claimRows, decisions, questions, run, now, runs, synth, retr, extr, contra>>

vars == <<people, job, evidence, claimRows, proposals, decisions, questions, audit,
          run, now, runs, last, synth, retr, extr, contra>>

Init == JobInit /\ synth = NoSynth /\ retr = NoRetr /\ extr = NoExtr /\ contra = NoContra

Next ==
    \/ RunCompletedJob
    \/ RunStart
    \/ Resolve(JobConfigs)
    \/ Retrieval(JobFailPatterns)
    \/ Extraction(JobReplies)
    \/ Verification
    \/ Synthesis
    \/ Complete
    \/ RaiseFatal

Spec == Init /\ [][Next]_vars

(***************************************************************************)
(* Claims on the job                                                       *)
(***************************************************************************)
JobRowsUnchanged ==
    /\ evidence' = evidence
    /\ claimRows' = claimRows
    /\ proposals' = proposals
    /\ questions' = questions

\* C6: run_research_job on a completed job is a no-op: every field of the job
\* stays as it is and no evidence, claim, proposal or question row is added.
C6_RunOnCompletedIsNoOp ==
    [][job.status = "completed" => job' = job /\ JobRowsUnchanged /\ run' = run]_vars

C6_Witness ==
    /\ last.op = "run_completed"
    /\ job.status = "completed" /\ job.completed_count > 0
    /\ proposals # <<>>

\* C7: once the job is completed or failed, no later run_research_job call
\* changes its status, stage, counters, timestamps or stage statistics.
C7_TerminalJobImmutable ==
    [][job.status \in {"completed", "failed"} => job' = job]_vars

PersonHadErrors == run.retrieval_errors # <<>> \/ ~run.extraction.parse_valid

\* C9: a person whose retrieval returned a connector error or whose extraction
\* returned parse_valid = false adds exactly one to error_count and does not
\* stop the job: it stays running, goes on to the next person and, after the
\* last person, ends completed with every person counted.
C9_PerPersonErrorIsolation ==
    [][/\ (run.pc = "synthesis" /\ run'.pc # "idle") =>
            /\ job'.error_count = job.error_count + (IF PersonHadErrors THEN 1 ELSE 0)
            /\ job'.status = "running"
            /\ job'.completed_count = run.idx
            /\ IF run.idx < Len(run.people)
               THEN run'.pc = "retrieval" /\ run'.idx = run.idx + 1
               ELSE run'.pc = "finish"
       /\ (run.pc = "finish" /\ run'.pc = "idle") =>
            /\ job'.status = "completed"
            /\ job'.error_count = job.error_count
            /\ job'.completed_count = Len(run.people)
            /\ job.completed_count = Len(run.people)]_vars

HasEvidenceFrom(source) == \E i \in DOMAIN evidence : evidence[i].source = source

C9_Witness ==
    /\ job.status = "completed"
    /\ job.error_count = 2 /\ job.completed_count = 2
    /\ \E i \in DOMAIN job.stats.errors :
          job.stats.errors[i].stage = "retrieval" /\ job.stats.errors[i].detail = "alpha"
    /\ HasEvidenceFrom("beta") /\ ~HasEvidenceFrom("alpha")


(***************************************************************************)
(* Review after research: the job runs against configured connectors and a *)
(* model client, a person decides the proposals and applies approved ones.  *)
(***************************************************************************)
ReviewConfigs == {[connectors |-> <<ConnAlpha, ConnBeta>>, has_client |-> TRUE]}

ReviewFailPatterns == {<<0, 0>>}

ReviewReplies ==
    {ReplyPair(Reply("ok", "named"), Reply("ok", "none")),
     ReplyPair(Reply("ok", "named_spaced"), Reply("ok", "none")),
     ReplyPair(Reply("ok", "weak"), Reply("ok", "none"))}

NextReview ==
    \/ RunCompletedJob
    \/ RunStart
    \/ Resolve(ReviewConfigs)
    \/ Retrieval(ReviewFailPatterns)
    \/ Extraction(ReviewReplies)
    \/ Verification
    \/ Synthesis
    \/ Complete
    \/ RaiseFatal
    \/ Decide
    \/ ApplyApproved

SpecReview == Init /\ [][NextReview]_vars


(***************************************************************************)
(* Claims on review and apply                                              *)
(***************************************************************************)
HasName(proposal) == Truthy(proposal.candidate_name)

HasCitations(proposal) == proposal.evidence_ids # <<>>

\* C1: in every state reached by run_research_job, decide_proposal and
\* apply_approved_proposals calls, no stored proposal has a non-null
\* candidate_name together with an empty evidence-id list.
C1_NamedProposalsAreCited ==
    \A id \in DOMAIN proposals : HasName(proposals[id]) => HasCitations(proposals[id])

\* C3: approving a proposal whose evidence-id list is empty or whose
\* candidate_name is null or empty raises the domain error, leaves every
\* proposal as it was and appends no decision record.
C3_ApprovalGuard ==
    [][\A id \in DOMAIN proposals :
          (/\ DecideProposal(id, "approve", NoBody)
           /\ (~HasCitations(proposals[id]) \/ ~HasName(proposals[id])))
          => (/\ last'.op = "approve" /\ last'.raised /\ last'.arg = id
              /\ proposals' = proposals
              /\ decisions' = decisions)]_vars

C3_Witness ==
    /\ last.op = "approve" /\ last.raised
    /\ last.arg \in DOMAIN proposals
    /\ ~HasCitations(proposals[last.arg]) \/ ~HasName(proposals[last.arg])
    /\ proposals[last.arg].status = "pending_review"
    /\ decisions = <<>>

NewAudit == SubSeq(audit', Len(audit) + 1, Len(audit'))

Eligible(proposal) ==
    /\ proposal.status = "approved"
    /\ HasName(proposal) /\ Strip(proposal.candidate_name) # ""
    /\ HasCitations(proposal)

LinkedBy(id) == Eligible(proposals[id]) /\ proposals'[id].status = "applied"

\* C4: an apply call links a parent to a child, and creates a parent person,
\* only for a proposal that is approved, named and cited when the call is
\* made; a proposal in any other status is not modified and causes no tree
\* mutation and no audit event.  Nothing but an apply call changes the tree.
C4_ApplyOnlyApprovedCited ==
    [][/\ people' # people => ApplyApproved
       /\ ApplyApproved =>
            /\ \A id \in DOMAIN proposals :
                  /\ proposals'[id] # proposals[id] => LinkedBy(id)
                  /\ proposals[id].status # "approved" =>
                        /\ proposals'[id] = proposals[id]
                        /\ \A k \in DOMAIN NewAudit : NewAudit[k].proposal_id # id
            /\ \A i \in DOMAIN people' :
                  (i \notin DOMAIN people \/ people'[i] # people[i]) =>
                      \E id \in DOMAIN proposals :
                          /\ LinkedBy(id)
                          /\ \/ people'[i].xref = proposals[id].person_xref
                             \/ /\ i \notin DOMAIN people
                                /\ people'[i].name = Strip(proposals[id].candidate_name)]_vars

C4_Witness ==
    /\ last.op = "apply" /\ last.arg > 0
    /\ \E id \in DOMAIN proposals : proposals[id].status = "applied"
    /\ \E id \in DOMAIN proposals : proposals[id].status = "pending_review"
    /\ Len(people) > Len(InitPeople)

Terminal(proposal) == proposal.status \in {"applied", "rejected"}

\* C5: once a proposal is applied or rejected, no later decision and no later
\* apply call changes its status, candidate_name, confidence or notes.
C5_TerminalProposals ==
    [][\A id \in DOMAIN proposals :
          Terminal(proposals[id]) =>
              /\ proposals'[id].status = proposals[id].status
              /\ proposals'[id].candidate_name = proposals[id].candidate_name
              /\ proposals'[id].confidence = proposals[id].confidence
              /\ proposals'[id].notes = proposals[id].notes]_vars


(***************************************************************************)
(* synthesize_proposals called directly, on any claim list, evidence-source *)
(* map and contradiction result of the sets below.                         *)
(***************************************************************************)
MaxClaims == 3

SynthClaim(relationship, candidate_name, confidence, evidence_ids) ==
    [relationship |-> relationship, candidate_name |-> candidate_name,
     confidence |-> confidence, rationale |-> "", evidence_ids |-> evidence_ids]

SynthClaims ==
    {SynthClaim("father", "John Doe", 900, <<1>>),
     SynthClaim("father", "john  doe", 400, <<>>),
     SynthClaim("father", "James Doe", 950, <<>>),
     SynthClaim("father", "James Doe", 300, <<3>>),
     SynthClaim("father", "  ", 900, <<2>>),
     SynthClaim("father", "Jane Doe", 900, <<2>>),
     SynthClaim("mother", "Mary Smith", 100, <<2>>),
     SynthClaim("mother", "Mary Smith", 800, <<1, 3>>),
     SynthClaim("mother", None, 900, <<1>>)}

SynthClaimLists == UNION {[1..n -> SynthClaims] : n \in 0..MaxClaims}

SynthSources ==
    {[id \in {1, 2} |-> IF id = 1 THEN "alpha" ELSE "beta"],
     [id \in {1, 2} |-> IF id = 1 THEN "alpha" ELSE ""]}

SynthContradictions ==
    {NoContradictions,
     [by_relationship |-> [father |-> <<"multiple_high_confidence_candidates">>,
                           mother |-> <<>>],
      global_flags |-> <<>>],
     [by_relationship |-> [father |-> <<>>, mother |-> <<"chronology_conflict">>],
      global_flags |-> <<"same_parent_name_for_both_relationships">>]}

SynthInit ==
    /\ JobInit
    /\ retr = NoRetr
    /\ extr = NoExtr
    /\ contra = NoContra
    /\ \E claims \in SynthClaimLists, evidence_sources \in SynthSources,
          contradictions \in SynthContradictions :
          synth = [pc |-> "called", claims |-> claims, evidence_sources |-> evidence_sources,
                   contradictions |-> contradictions, drafts |-> <<>>]

\* scoring.py 96-180: the call returns its drafts
SynthesizeCall ==
    /\ synth.pc = "called"
    /\ synth' = [synth EXCEPT
                   !.pc = "returned",
                   !.drafts = synthesize_proposals(synth.claims, synth.evidence_sources,
                                                   synth.contradictions)]
    /\ UNCHANGED <<dbVars, run, now, runs, last, retr, extr, contra>>

NextSynth == SynthesizeCall

SpecSynth == SynthInit /\ [][NextSynth]_vars

NamedClaimsOf(claims, relationship) ==
    {i \in DOMAIN claims :
        claims[i].relationship = relationship /\ Truthy(claims[i].candidate_name)}

\* C2: every draft synthesize_proposals returns has evidence ids when it has a
\* candidate name; when no named claim of a relationship cites evidence, its
\* draft is the null-candidate "Insufficient evidence" draft, whatever the
\* claims' confidence.
C2_DraftsNamedOnlyWithEvidence ==
    synth.pc = "returned" =>
        /\ Len(synth.drafts) = 2
        /\ \A i \in DOMAIN synth.drafts :
              LET draft == synth.drafts[i]
                  named == NamedClaimsOf(synth.claims, draft.relationship)
              IN  /\ draft.relationship = Relationships[i]
                  /\ HasName(draft) => HasCitations(draft)
                  /\ (named # {} /\ \A k \in named : synth.claims[k].evidence_ids = <<>>) =>
                        /\ draft.candidate_name = None
                        /\ draft.evidence_ids = <<>>
                        /\ draft.notes = "Insufficient evidence: no valid citations for proposal."

C2_Witness ==
    /\ synth.pc = "returned"
    /\ synth.claims = <<SynthClaim("father", "James Doe", 950, <<>>),
                        SynthClaim("mother", "Mary Smith", 800, <<1, 3>>)>>
    /\ synth.drafts[1].candidate_name = None
    /\ synth.drafts[1].notes = "Insufficient evidence: no valid citations for proposal."
    /\ synth.drafts[2].candidate_name = "Mary Smith"
    /\ synth.drafts[2].evidence_ids = <<1, 3>>


(***************************************************************************)
(* retrieve_evidence thread by thread: the pool's workers run               *)
(* _search_with_retry for the connectors, the caller joins the futures in  *)
(* submission order, then deduplicates.                                    *)
(***************************************************************************)
MaxConnectors == 3

MaxParallel == 2

ConnGamma ==
    [name |-> "gamma",
     items |-> <<[source |-> "gamma", title |-> "Parish Register",
                  url |-> "https://example.com/records/2"],
                 [source |-> "gamma", title |-> "Ship Manifest",
                  url |-> "https://example.com/records/3"]>>]

ConnDelta ==
    [name |-> "delta",
     items |-> <<[source |-> "delta", title |-> "Ship Manifest",
                  url |-> "https://example.com/records/3"]>>]

ConnectorPool == <<ConnAlpha, ConnBeta, ConnGamma, ConnDelta>>

\* a submitted task that no pool thread has taken yet
QueuedWorker ==
    [state |-> "queued", attempt |-> 0, retries_used |-> 0, errors |-> <<>>, items |-> <<>>,
     calls |-> 0]

RetrInit ==
    /\ JobInit
    /\ synth = NoSynth
    /\ extr = NoExtr
    /\ contra = NoContra
    /\ \E n \in 0..Min2(MaxConnectors, Len(ConnectorPool)) :
       \E fails \in [1..n -> {0, 1, AlwaysFails}] :
       \E max_parallel_connectors \in 1..MaxParallel :
       \E max_results_per_connector \in {1, MAX_RESULTS_PER_CONNECTOR} :
       \E max_total \in {2, MAX_TOTAL} :
       \E max_retries \in 0..MAX_RETRIES :
          retr = [pc |-> "called", connectors |-> SubSeq(ConnectorPool, 1, n),
                  fails |-> fails, max_retries |-> max_retries,
                  max_results_per_connector |-> max_results_per_connector,
                  max_total |-> max_total,
                  max_parallel_connectors |-> max_parallel_connectors,
                  semaphore |-> 0, workers |-> <<>>, joined |-> 0,
                  retries_used |-> 0, errors |-> <<>>, merged |-> <<>>, evidence |-> <<>>]

\* Mutant: the limit is taken one too high.
ParallelLimitMutant == retr.max_parallel_connectors + 1

\* retrieval.py 88: the max_parallel_connectors the semaphore and the pool are sized by
ParallelLimit == retr.max_parallel_connectors

\* retrieval.py 90-102: no connectors, or the semaphore, the pool and the submitted tasks
RetrSubmit ==
    /\ retr.pc = "called"
    /\ retr' = IF retr.connectors = <<>>
               THEN [retr EXCEPT !.pc = "returned"]
               ELSE [retr EXCEPT
                       !.pc = "joining",
                       !.semaphore = Max2(1, ParallelLimit),
                       !.workers = [i \in DOMAIN retr.connectors |-> QueuedWorker]]
    /\ UNCHANGED <<dbVars, run, now, runs, last, synth, extr, contra>>

\* retrieval.py 98: ThreadPoolExecutor(max_workers = ...)
PoolSize == Min2(Len(retr.connectors), ParallelLimit)

Running == {i \in DOMAIN retr.workers : retr.workers[i].state \in {"waiting", "holding"}}

\* a free pool thread takes the oldest queued task
RetrTake(i) ==
    /\ retr.pc = "joining"
    /\ retr.workers[i].state = "queued"
    /\ \A k \in 1..(i - 1) : retr.workers[k].state # "queued"
    /\ Cardinality(Running) < PoolSize
    /\ retr' = [retr EXCEPT !.workers[i].state = "waiting"]
    /\ UNCHANGED <<dbVars, run, now, runs, last, synth, extr, contra>>

\* retrieval.py 68: with semaphore, entered
RetrAcquire(i) ==
    /\ retr.pc = "joining"
    /\ retr.workers[i].state = "waiting"
    /\ retr.semaphore > 0
    /\ retr' = [retr EXCEPT !.semaphore = @ - 1, !.workers[i].state = "holding"]
    /\ UNCHANGED <<dbVars, run, now, runs, last, synth, extr, contra>>

\* Mutant: the exception of a failed attempt leaves _search_with_retry.
AfterFailureMutant(worker, connector, max_retries) ==
    [worker EXCEPT !.state = "raised", !.calls = @ + 1]

\* Mutant: the last failed attempt is counted as a retry too.
AfterFailureCountsMutant(worker, connector, max_retries) ==
    [worker EXCEPT
        !.errors = Append(@, <<connector.name, worker.attempt + 1>>),
        !.retries_used = @ + 1,
        !.attempt = @ + 1,
        !.calls = @ + 1,
        !.state = IF worker.attempt + 1 > max_retries THEN "done" ELSE "waiting"]

\* retrieval.py 72-77: the attempt raised; the error is recorded, the loop goes on or ends
AfterFailure(worker, connector, max_retries) ==
    [worker EXCEPT
        !.errors = Append(@, <<connector.name, worker.attempt + 1>>),
        !.retries_used = IF worker.attempt < max_retries THEN @ + 1 ELSE @,
        !.attempt = @ + 1,
        !.calls = @ + 1,
        !.state = IF worker.attempt + 1 > max_retries THEN "done" ELSE "waiting"]

\* retrieval.py 69-71: the attempt returned the connector's items
AfterSuccess(worker, connector) ==
    [worker EXCEPT !.items = connector.items, !.calls = @ + 1, !.state = "done"]

\* Mutant: an attempt that raises does not release the semaphore.
RetrSearchLeakMutant(i) ==
    /\ retr.pc = "joining"
    /\ retr.workers[i].state = "holding"
    /\ LET worker == retr.workers[i]
           connector == retr.connectors[i]
           throws == worker.attempt + 1 <= retr.fails[i]
       IN  retr' = [retr EXCEPT
                      !.semaphore = IF throws THEN @ ELSE @ + 1,
                      !.workers[i] = IF throws
                                     THEN AfterFailure(worker, connector, retr.max_retries)
                                     ELSE AfterSuccess(worker, connector)]
    /\ UNCHANGED <<dbVars, run, now, runs, last, synth, extr, contra>>

\* retrieval.py 68-75: one search_person call inside the semaphore, which is released
RetrSearch(i) ==
    /\ retr.pc = "joining"
    /\ retr.workers[i].state = "holding"
    /\ LET worker == retr.workers[i]
           connector == retr.connectors[i]
           throws == worker.attempt + 1 <= retr.fails[i]
       IN  retr' = [retr EXCEPT
                      !.semaphore = @ + 1,
                      !.workers[i] = IF throws
                                     THEN AfterFailure(worker, connector, retr.max_retries)
                                     ELSE AfterSuccess(worker, connector)]
    /\ UNCHANGED <<dbVars, run, now, runs, last, synth, extr, contra>>

\* retrieval.py 103-107: future.result() of the next future, which has finished
RetrJoin ==
    /\ retr.pc = "joining"
    /\ retr.joined < Len(retr.workers)
    /\ LET worker == retr.workers[retr.joined + 1]
           acc == JoinResults(<<worker>>, retr.max_results_per_connector,
                              [retries_used |-> retr.retries_used, errors |-> retr.errors,
                               merged |-> retr.merged])
       IN  /\ worker.state \in {"done", "raised"}
           /\ retr' = IF worker.state = "raised"
                      THEN [retr EXCEPT !.pc = "raised"]
                      ELSE [retr EXCEPT !.joined = @ + 1,
                                        !.retries_used = acc.retries_used,
                                        !.errors = acc.errors,
                                        !.merged = acc.merged]
    /\ UNCHANGED <<dbVars, run, now, runs, last, synth, extr, contra>>

\* retrieval.py 98, 109-131: the pool is shut down, the merged items deduplicated
RetrReturn ==
    /\ retr.pc = "joining"
    /\ retr.joined = Len(retr.workers)
    /\ \A i \in DOMAIN retr.workers : retr.workers[i].state = "done"
    /\ retr' = [retr EXCEPT !.pc = "returned",
                            !.evidence = Dedup(retr.merged, {}, <<>>, retr.max_total)]
    /\ UNCHANGED <<dbVars, run, now, runs, last, synth, extr, contra>>

NextRetr ==
    \/ RetrSubmit
    \/ \E i \in DOMAIN retr.workers : RetrTake(i)
    \/ \E i \in DOMAIN retr.workers : RetrAcquire(i)
    \/ \E i \in DOMAIN retr.workers : RetrSearch(i)
    \/ RetrJoin
    \/ RetrReturn

\* every thread that can run does run: the pool's threads and the caller
SpecRetr == RetrInit /\ [][NextRetr]_vars /\ WF_vars(NextRetr)

AlwaysThrows(i) == retr.fails[i] > retr.max_retries

RECURSIVE HealthyMerged(_)
\* the first max_results_per_connector items of the connectors from i on that
\* do not throw on every attempt, in connector order
HealthyMerged(i) ==
    IF i > Len(retr.connectors) THEN <<>>
    ELSE (IF AlwaysThrows(i) THEN <<>>
          ELSE SeqTake(retr.connectors[i].items, retr.max_results_per_connector))
         \o HealthyMerged(i + 1)

\* C10: connectors that throw on every attempt do not keep the others from
\* being queried nor their results from being returned: the call never raises,
\* it returns, and its evidence is the deduplicated, truncated results of the
\* connectors that do not always throw.
C10_ThrowingConnectorsIsolated ==
    /\ [](retr.pc # "raised")
    /\ [](retr.pc = "returned" =>
            /\ \A i \in DOMAIN retr.workers :
                  retr.workers[i].calls >= 1
                  /\ (~AlwaysThrows(i) => retr.workers[i].items = retr.connectors[i].items)
            /\ retr.evidence = Dedup(HealthyMerged(1), {}, <<>>, retr.max_total))
    /\ <>(retr.pc = "returned")

C10_Witness ==
    /\ retr.pc = "returned"
    /\ Len(retr.connectors) = 3
    /\ AlwaysThrows(1) /\ ~AlwaysThrows(2) /\ AlwaysThrows(3)
    /\ retr.max_total = MAX_TOTAL
    /\ Len(retr.evidence) = 2
    /\ \A k \in DOMAIN retr.evidence : retr.evidence[k].source = "beta"


FailedAttempts(i) == Min2(retr.fails[i], retr.max_retries + 1)

\* C11: per connector at most max_retries + 1 search calls are made and none
\* after the first successful one; every failed attempt adds one error tagged
\* with the connector name and the 1-based attempt number; retries_used is
\* the number of failed attempts that were followed by another attempt, at
\* most max_retries.
C11_RetryBound ==
    /\ [](\A i \in DOMAIN retr.workers :
            LET worker == retr.workers[i]
            IN  /\ worker.calls <= retr.max_retries + 1
                /\ worker.calls = Len(worker.errors) + (IF worker.items # <<>> THEN 1 ELSE 0)
                /\ \A k \in DOMAIN worker.errors :
                      worker.errors[k] = <<retr.connectors[i].name, k>>
                /\ worker.retries_used = Min2(Len(worker.errors), retr.max_retries)
                /\ worker.items # <<>> => worker.state = "done"
                /\ worker.state = "done" =>
                      /\ Len(worker.errors) = FailedAttempts(i)
                      /\ worker.retries_used =
                            (IF worker.items # <<>> THEN Len(worker.errors)
                             ELSE Len(worker.errors) - 1)
                      /\ [items |-> worker.items, retries_used |-> worker.retries_used,
                          errors |-> worker.errors]
                         = _search_with_retry(retr.connectors[i], retr.fails[i],
                                              retr.max_retries, 0, 0, <<>>))
    /\ [][\A i \in DOMAIN retr.workers :
            retr.workers[i].state = "done" => retr.workers'[i] = retr.workers[i]]_vars

C11_Witness ==
    /\ retr.pc = "returned"
    /\ Len(retr.workers) = 2
    /\ retr.max_retries = 1
    /\ retr.workers[1].calls = 2 /\ retr.workers[1].items # <<>>
    /\ retr.workers[1].retries_used = 1
    /\ retr.workers[2].calls = 2 /\ retr.workers[2].items = <<>>
    /\ retr.workers[2].errors = <<<<"beta", 1>>, <<"beta", 2>>>>
    /\ retr.workers[2].retries_used = 1
    /\ retr.retries_used = 2


\* the workers inside a connector.search_person call
InFlight == {i \in DOMAIN retr.workers : retr.workers[i].state = "holding"}

\* C12: in every interleaving of the worker threads the number of connector
\* search calls in flight never exceeds max_parallel_connectors, whatever the
\* number of connectors.
C12_ParallelBound ==
    /\ Cardinality(InFlight) <= retr.max_parallel_connectors
    /\ retr.pc = "joining" =>
          Cardinality(InFlight) + retr.semaphore = Max2(1, retr.max_parallel_connectors)

C12_Witness ==
    /\ Len(retr.connectors) = 3
    /\ retr.max_parallel_connectors = 2
    /\ Cardinality(InFlight) = 2
    /\ \E i \in DOMAIN retr.workers : retr.workers[i].state = "queued"


EvidenceKey(item) == <<normalize_url(item.url), normalize_title_hash(item.title)>>

\* index in the merged list of the first item with the key of `item`
FirstOccurrence(merged, item) ==
    CHOOSE j \in DOMAIN merged :
        /\ EvidenceKey(merged[j]) = EvidenceKey(item)
        /\ \A k \in 1..(j - 1) : EvidenceKey(merged[k]) # EvidenceKey(item)

MergedKeys(merged) == {EvidenceKey(merged[j]) : j \in DOMAIN merged}

\* C13: the returned evidence has no two items with the same (normalized url,
\* normalized-title hash) key; each kept item is the first occurrence of its
\* key in the merge order (connector submission order, then per-connector
\* order), kept in that order; the result is the same whatever the order in
\* which the connector calls start and complete.
C13_DedupDeterministic ==
    retr.pc = "returned" =>
        /\ retr.merged = HealthyMerged(1)
        /\ \A a, b \in DOMAIN retr.evidence :
              a # b => EvidenceKey(retr.evidence[a]) # EvidenceKey(retr.evidence[b])
        /\ \A a \in DOMAIN retr.evidence :
              /\ \E j \in DOMAIN retr.merged : EvidenceKey(retr.merged[j]) = EvidenceKey(retr.evidence[a])
              /\ retr.evidence[a] = retr.merged[FirstOccurrence(retr.merged, retr.evidence[a])]
        /\ \A a, b \in DOMAIN retr.evidence :
              a < b => FirstOccurrence(retr.merged, retr.evidence[a])
                       < FirstOccurrence(retr.merged, retr.evidence[b])
        /\ Len(retr.evidence) = Min2(retr.max_total, Cardinality(MergedKeys(retr.merged)))
        /\ retr.evidence = retrieve_evidence(retr.connectors, retr.fails, retr.max_retries,
                               retr.max_results_per_connector, retr.max_total).evidence

C13_Witness ==
    /\ retr.pc = "returned"
    /\ Len(retr.connectors) = 3
    /\ \A i \in DOMAIN retr.fails : retr.fails[i] = 0
    /\ Len(retr.merged) = 5
    /\ Len(retr.evidence) = 3
    /\ retr.evidence[1].source = "alpha"
    /\ retr.evidence[2].source = "beta"
    /\ retr.evidence[3].source = "gamma"


(***************************************************************************)
(* extract_claims_for_person called directly, on any pair of model          *)
(* responses (primary, repair) and any set of supplied evidence ids.        *)
(***************************************************************************)
MaxSupplied == 2

ExtrResponse(kind, claims) == [kind |-> kind, claims |-> claims]

\* id 7 is never supplied; "uncle" and confidence 1.2 fail ClaimItem's validation
ExtrResponses ==
    {ExtrResponse("throw", <<>>),
     ExtrResponse("malformed", <<>>),
     ExtrResponse("ok", <<>>),
     ExtrResponse("ok", <<RawClaim("father", "John Doe", 8000, "census 1890", <<1, 7>>)>>),
     ExtrResponse("ok", <<RawClaim("mother", "Mary Smith", 8800, "", <<7>>),
                          RawClaim("father", "  ", 5004, "", <<2, 1, 2>>)>>),
     ExtrResponse("ok", <<RawClaim("uncle", "John Doe", 9000, "", <<1>>)>>),
     ExtrResponse("ok", <<RawClaim("father", "James Doe", 12000, "", <<1>>)>>)}

ExtrInit ==
    /\ JobInit
    /\ contra = NoContra
    /\ synth = NoSynth
    /\ retr = NoRetr
    /\ \E has_client \in BOOLEAN, first \in ExtrResponses, second \in ExtrResponses,
          valid_evidence_ids \in SUBSET (1..MaxSupplied) :
          extr = [pc |-> "called", has_client |-> has_client, first |-> first,
                  second |-> second, valid_evidence_ids |-> valid_evidence_ids,
                  outcome |-> NoOutcome]

\* extraction.py 153-225: the call returns its outcome
ExtractCall ==
    /\ extr.pc = "called"
    /\ extr' = [extr EXCEPT
                  !.pc = "returned",
                  !.outcome = extract_claims_for_person(extr.has_client, extr.first,
                                  extr.second, extr.valid_evidence_ids)]
    /\ UNCHANGED <<dbVars, run, now, runs, last, synth, retr, contra>>

NextExtract == ExtractCall

SpecExtract == ExtrInit /\ [][NextExtract]_vars

\* the response is a JSON payload whose claims all validate
WellFormed(response) ==
    /\ response.kind = "ok"
    /\ \A i \in DOMAIN response.claims :
          /\ response.claims[i].relationship \in {"father", "mother"}
          /\ response.claims[i].confidence \in 0..10000

Returned == extr.pc = "returned" /\ extr.has_client

\* C14: at most two LLM calls are made; a primary output that fails parsing
\* or validation is followed by exactly one repair call; a well-formed repair
\* output gives retries_used = 1, repairs_used = 1, parse_valid = true; a
\* malformed repair output gives parse_valid = false, no claims and both
\* failure reasons, with no third call.
C14_RepairBound ==
    Returned =>
        /\ extr.outcome.llm_calls <= 2
        /\ (extr.first.kind # "throw" /\ ~WellFormed(extr.first)) =>
              /\ extr.outcome.llm_calls = 2
              /\ extr.outcome.retries_used = 1 /\ extr.outcome.repairs_used = 1
              /\ WellFormed(extr.second) =>
                    /\ extr.outcome.parse_valid
                    /\ Len(extr.outcome.claims) = Len(extr.second.claims)
                    /\ extr.outcome.errors = <<"Primary parse failed">>
              /\ (extr.second.kind # "throw" /\ ~WellFormed(extr.second)) =>
                    /\ ~extr.outcome.parse_valid
                    /\ extr.outcome.claims = <<>>
                    /\ extr.outcome.errors = <<"Primary parse failed", "Repair parse failed">>
        /\ WellFormed(extr.first) =>
              /\ extr.outcome.llm_calls = 1
              /\ extr.outcome.retries_used = 0 /\ extr.outcome.repairs_used = 0
              /\ extr.outcome.parse_valid

C14_Witness ==
    /\ Returned
    /\ extr.first = ExtrResponse("malformed", <<>>)
    /\ extr.second = ExtrResponse("ok", <<RawClaim("uncle", "John Doe", 9000, "", <<1>>)>>)
    /\ ~extr.outcome.parse_valid
    /\ extr.outcome.llm_calls = 2

\* C15: when the first LLM call throws, extraction returns at once with no
\* claims, parse_valid = false, retries_used = 0, repairs_used = 0, and the
\* repair call is not made.
C15_RequestFailureNoRepair ==
    (Returned /\ extr.first.kind = "throw") =>
        /\ extr.outcome.claims = <<>>
        /\ ~extr.outcome.parse_valid
        /\ extr.outcome.retries_used = 0 /\ extr.outcome.repairs_used = 0
        /\ extr.outcome.llm_calls = 1
        /\ extr.outcome.errors = <<"LLM request failed">>

C15_Witness ==
    /\ Returned
    /\ extr.first.kind = "throw"
    /\ WellFormed(extr.second) /\ extr.second.claims # <<>>
    /\ extr.outcome.claims = <<>>

\* the claims of the response the outcome was parsed from
ParsedFrom == IF WellFormed(extr.first) THEN extr.first.claims ELSE extr.second.claims

\* C16: every returned claim's evidence_ids are among the supplied ids; cited
\* ids that were not supplied are dropped, in place, and the claim and the
\* parse stay valid.
C16_EvidenceIdsSupplied ==
    Returned =>
        /\ \A i \in DOMAIN extr.outcome.claims :
              SeqRange(extr.outcome.claims[i].evidence_ids) \subseteq extr.valid_evidence_ids
        /\ extr.outcome.claims # <<>> =>
              /\ extr.outcome.parse_valid
              /\ Len(extr.outcome.claims) = Len(ParsedFrom)
              /\ \A i \in DOMAIN extr.outcome.claims :
                    /\ extr.outcome.claims[i].relationship = ParsedFrom[i].relationship
                    /\ SeqRange(extr.outcome.claims[i].evidence_ids)
                          = SeqRange(ParsedFrom[i].evidence_ids) \cap extr.valid_evidence_ids

C16_Witness ==
    /\ Returned
    /\ extr.valid_evidence_ids = {1}
    /\ extr.first.kind = "malformed"
    /\ Len(extr.outcome.claims) = 2
    /\ extr.outcome.claims[1].candidate_name = "Mary Smith"
    /\ extr.outcome.claims[1].evidence_ids = <<>>
    /\ extr.outcome.claims[2].evidence_ids = <<1>>
    /\ extr.outcome.parse_valid


(***************************************************************************)
(* Score bounds, selection and threshold of synthesize_proposals           *)
(***************************************************************************)
\* the score _compute_candidate_score gives the group name_key of a relationship
CandidateScore(relationship, name_key) ==
    _compute_candidate_score(
        GroupClaims(synth.claims, relationship, name_key), synth.evidence_sources,
        synth.contradictions.by_relationship[relationship],
        synth.contradictions.global_flags).score

CandidateKeys(relationship) == GroupKeys(synth.claims, relationship, {})

\* C17: for every claim list, source map and contradiction result, the
\* final_score of every candidate group lies in [0,1] (0..ScoreScale in the
\* scaled arithmetic), and so do the final_score and the confidence (per mille)
\* of every draft synthesize_proposals returns.
C17_ScoreBounds ==
    synth.pc = "returned" =>
        /\ \A i \in 1..2 :
              \A k \in SeqRange(CandidateKeys(Relationships[i])) :
                  /\ CandidateScore(Relationships[i], k) >= 0
                  /\ CandidateScore(Relationships[i], k) <= ScoreScale
        /\ \A i \in DOMAIN synth.drafts :
              /\ synth.drafts[i].final_score >= 0
              /\ synth.drafts[i].final_score <= ScoreScale
              /\ synth.drafts[i].confidence >= 0
              /\ synth.drafts[i].confidence <= 1000

\* a returned draft whose winning group had its penalties exceed its positive
\* terms (score clamped to 0), next to a draft with a positive score
C17_Witness ==
    /\ synth.pc = "returned"
    /\ \E i \in DOMAIN synth.drafts :
          /\ synth.drafts[i].evidence_ids # <<>>
          /\ synth.drafts[i].final_score = 0
          /\ synth.contradictions.by_relationship[synth.drafts[i].relationship] # <<>>
    /\ \E i \in DOMAIN synth.drafts : synth.drafts[i].final_score > minimum_score


\* the highest composite score among the candidate groups of a relationship
MaxScore(relationship) ==
    LET scores == {CandidateScore(relationship, k) :
                       k \in SeqRange(CandidateKeys(relationship))}
    IN  CHOOSE m \in scores : \A x \in scores : x <= m

\* the first-seen normalized name among the groups with the highest score
FirstBest(relationship) ==
    LET keys == CandidateKeys(relationship)
        i == CHOOSE n \in DOMAIN keys :
                 /\ CandidateScore(relationship, keys[n]) = MaxScore(relationship)
                 /\ \A j \in 1..(n - 1) :
                        CandidateScore(relationship, keys[j]) < MaxScore(relationship)
    IN  keys[i]

\* the average raw confidence of a group is higher than that of another
HigherConfidence(relationship, a, b) ==
    LET ga == GroupClaims(synth.claims, relationship, a)
        gb == GroupClaims(synth.claims, relationship, b)
    IN  SumSeq([n \in DOMAIN ga |-> ga[n].confidence]) * Len(gb)
            > SumSeq([n \in DOMAIN gb |-> gb[n].confidence]) * Len(ga)

\* C18: for each relationship with at least one named candidate, the group
\* synthesize_proposals selects is the one with the highest composite score,
\* and among equal scores the one whose normalized name was first seen in the
\* claim list: a draft built from a selected group carries that group's score,
\* evidence ids and (when named) name, and the "no valid citations" draft is
\* returned only when that group has a blank name or cites nothing.
C18_HighestScoreFirstSeen ==
    synth.pc = "returned" =>
        \A i \in DOMAIN synth.drafts :
            LET draft == synth.drafts[i]
                rel == draft.relationship
            IN  CandidateKeys(rel) # <<>> =>
                  LET winner == FirstBest(rel)
                      group == GroupClaims(synth.claims, rel, winner)
                      ids == SortedInts(CandidateEvidenceIds(group))
                  IN  IF draft.notes = "Insufficient evidence: no valid citations for proposal."
                      THEN ~Truthy(Strip(group[1].candidate_name)) \/ ids = <<>>
                      ELSE /\ draft.final_score = MaxScore(rel)
                           /\ draft.evidence_ids = ids
                           /\ HasName(draft) => _norm_name(draft.candidate_name) = winner

\* three father candidates: the named one ties with a later one on the
\* composite score and beats a third whose raw confidence is higher
C18_Witness ==
    /\ synth.pc = "returned"
    /\ HasName(synth.drafts[1])
    /\ LET keys == CandidateKeys("father")
           winner == _norm_name(synth.drafts[1].candidate_name)
       IN  /\ \E a, b \in DOMAIN keys :
                 /\ keys[a] = winner
                 /\ a < b
                 /\ CandidateScore("father", keys[b]) = CandidateScore("father", winner)
           /\ \E c \in DOMAIN keys :
                 /\ HigherConfidence("father", keys[c], winner)
                 /\ CandidateScore("father", keys[c]) < CandidateScore("father", winner)


ProposalsFor(xref, relationship) ==
    {i \in DOMAIN proposals :
        proposals[i].person_xref = xref /\ proposals[i].relationship = relationship}

\* the people the job counts as completed
ProcessedPeople ==
    LET job_people == RunPeople(people, job.stats.person_xrefs)
    IN  {job_people[i] : i \in 1..Min2(job.completed_count, Len(job_people))}

\* C20: whenever no run_research_job call is in progress, whatever calls were
\* made before (a re-run of a job that failed part-way through its people
\* included), every processed person has exactly one proposal row for father
\* and exactly one for mother.
C20_OneProposalPerPersonRelationship ==
    run.pc = "idle" =>
        \A xref \in ProcessedPeople : \A i \in 1..2 :
            Cardinality(ProposalsFor(xref, Relationships[i])) = 1


(***************************************************************************)
(* Claims on apply_approved_proposals                                      *)
(***************************************************************************)
ApprovedIds == {id \in DOMAIN proposals : proposals[id].status = "approved"}

SkipReasons ==
    {"candidate_missing", "missing_citations", "child_not_found",
     "father_already_set", "mother_already_set"}

\* the rows of people' that an apply call added or changed
TouchedPeople ==
    {i \in DOMAIN people' : i \notin DOMAIN people \/ people'[i] # people[i]}

ParentSlot(person, relationship) ==
    IF relationship = "father" THEN person.father_xref ELSE person.mother_xref

\* C21: an apply call writes exactly one audit event per approved proposal in
\* scope.  An 'applied' event goes with the child's slot linked, the proposal
\* set to 'applied' and one count in applied_updates; a 'skipped' event goes
\* with exactly one skip entry carrying one of the skip reasons, the proposal
\* unchanged (still 'approved'); people change only through applied
\* proposals; applied_updates + len(skipped) is the number of approved
\* proposals in scope.
C21_OneAuditEventPerApproved ==
    [][ApplyApproved =>
          LET new == NewAudit
              skipped == last'.skipped
              applied == {k \in DOMAIN new : new[k].action = "applied"}
          IN  /\ Len(new) = Cardinality(ApprovedIds)
              /\ \A id \in ApprovedIds :
                    Cardinality({k \in DOMAIN new : new[k].proposal_id = id}) = 1
              /\ \A k \in DOMAIN new :
                    LET id == new[k].proposal_id
                        entries == {n \in DOMAIN skipped : skipped[n].proposal_id = id}
                    IN  /\ id \in ApprovedIds
                        /\ new[k].action \in {"applied", "skipped"}
                        /\ new[k].action = "applied" =>
                              /\ proposals'[id] = [proposals[id] EXCEPT !.status = "applied"]
                              /\ entries = {}
                              /\ \E i \in DOMAIN people' :
                                    /\ people'[i].xref = proposals[id].person_xref
                                    /\ ParentSlot(people'[i], proposals[id].relationship) # 0
                        /\ new[k].action = "skipped" =>
                              /\ proposals'[id] = proposals[id]
                              /\ Cardinality(entries) = 1
                              /\ \A n \in entries : skipped[n].reason \in SkipReasons
              /\ \A i \in TouchedPeople :
                    \E k \in applied :
                        \/ people'[i].xref = new[k].child_xref
                        \/ people'[i].xref = new[k].created_person_xref
              /\ last'.arg = Cardinality(applied)
              /\ last'.arg + Len(skipped) = Cardinality(ApprovedIds)]_vars

\* an apply call that applied one approved proposal and skipped another
C21_Witness ==
    /\ last.op = "apply" /\ last.arg > 0
    /\ last.skipped # <<>>
    /\ \E a, b \in DOMAIN audit : audit[a].action = "applied" /\ audit[b].action = "skipped"
    /\ \E id \in DOMAIN proposals : proposals[id].status = "approved"


\* C22: an apply call never overwrites a parent link: a father_xref or
\* mother_xref that is set before the call is the same after it, and a slot
\* linked by one proposal of the call is not linked again by a later one: of
\* two approved proposals for the same child and relationship the one with the
\* lower id is applied and the other is skipped.
C22_NoParentOverwrite ==
    [][ApplyApproved =>
          /\ \A i \in DOMAIN people :
                /\ people'[i].xref = people[i].xref
                /\ people[i].father_xref # 0 => people'[i].father_xref = people[i].father_xref
                /\ people[i].mother_xref # 0 => people'[i].mother_xref = people[i].mother_xref
          /\ \A a, b \in ApprovedIds :
                (/\ a < b
                 /\ proposals[a].person_xref = proposals[b].person_xref
                 /\ proposals[a].relationship = proposals[b].relationship) =>
                    /\ proposals'[b].status = "approved"
                    /\ \E k \in DOMAIN NewAudit :
                          /\ NewAudit[k].proposal_id = b
                          /\ NewAudit[k].action = "skipped"
                    /\ \A i \in DOMAIN people :
                          (/\ people[i].xref = proposals[a].person_xref
                           /\ ParentSlot(people[i], proposals[a].relationship) = 0) =>
                              proposals'[a].status = "applied"]_vars

\* one apply call handled two approved proposals for the same child and
\* relationship: the lower id is applied, the higher is skipped and still approved
C22_Witness ==
    /\ last.op = "apply" /\ last.arg = 1 /\ Len(last.skipped) = 1
    /\ Len(audit) = 2
    /\ audit[1].action = "applied" /\ audit[2].action = "skipped"
    /\ audit[1].proposal_id < audit[2].proposal_id
    /\ audit[1].child_xref = audit[2].child_xref
    /\ audit[1].relationship = audit[2].relationship
    /\ proposals[audit[2].proposal_id].status = "approved"


ExpectedSex(relationship) == IF relationship = "father" THEN "M" ELSE "F"

\* the proposals an apply call applied for a relationship and a normalized candidate name
AppliedFor(relationship, name_key) ==
    {id \in ApprovedIds :
        /\ proposals'[id].status = "applied"
        /\ proposals[id].relationship = relationship
        /\ _norm_name(proposals[id].candidate_name) = name_key}

\* the person rows an apply call created with a normalized name and a sex
CreatedAs(name_key, sex) ==
    {i \in DOMAIN people' :
        /\ i \notin DOMAIN people
        /\ _norm_name(people'[i].name) = name_key
        /\ people'[i].sex = sex}

\* C23: when the proposals an apply call applies for one relationship name the
\* same candidate parent (equal after case and space normalization) and no
\* person matching that name exists before the call, the call creates exactly
\* one person for the name, links each of those children to that person, and
\* writes one 'applied' audit event per proposal.
C23_OneParentPerName ==
    [][ApplyApproved =>
          \A id \in ApprovedIds :
              LET rel == proposals[id].relationship
                  name_key == _norm_name(proposals[id].candidate_name)
                  group == AppliedFor(rel, name_key)
                  created == CreatedAs(name_key, ExpectedSex(rel))
              IN  (/\ id \in group
                   /\ _find_existing_person(people, proposals[id].candidate_name,
                                            ExpectedSex(rel)) = 0) =>
                      /\ Cardinality(created) = 1
                      /\ \A g \in group : \A c \in created :
                            /\ \E i \in DOMAIN people' :
                                  /\ people'[i].xref = proposals[g].person_xref
                                  /\ ParentSlot(people'[i], rel) = people'[c].xref
                            /\ Cardinality({k \in DOMAIN NewAudit :
                                                NewAudit[k].proposal_id = g}) = 1
                            /\ \A k \in DOMAIN NewAudit :
                                  NewAudit[k].proposal_id = g => NewAudit[k].action = "applied"]_vars

\* one apply call linked two different children to one newly created father
\* whose name the two proposals spell differently
C23_Witness ==
    /\ last.op = "apply" /\ last.arg = 2
    /\ Len(people) = Len(InitPeople) + 1
    /\ Len(audit) = 2
    /\ audit[1].action = "applied" /\ audit[2].action = "applied"
    /\ audit[1].child_xref # audit[2].child_xref
    /\ audit[1].created_person_xref # 0 /\ audit[2].created_person_xref = 0
    /\ proposals[audit[1].proposal_id].candidate_name
          # proposals[audit[2].proposal_id].candidate_name
    /\ \A i \in DOMAIN InitPeople : people[i].father_xref = audit[1].created_person_xref


(***************************************************************************)
(* The job next to the consent endpoint of the session: living people are  *)
(* imported without consent and become candidates once consent is given.   *)
(***************************************************************************)
\* sessions_router.py 57-59: a living person is imported with both consents off
PendingConsentPeople ==
    [i \in DOMAIN InitPeople |->
        [InitPeople[i] EXCEPT !.is_living = TRUE, !.can_use_data = FALSE,
                              !.can_llm_research = FALSE]]

ProgressTables == {InitPeople, PendingConsentPeople}

ProgressInit ==
    /\ \E table \in ProgressTables :
          /\ people = table
          /\ job = create_research_job(table, <<>>, 10)
    /\ evidence = <<>>
    /\ claimRows = <<>>
    /\ proposals = <<>>
    /\ decisions = <<>>
    /\ questions = <<>>
    /\ audit = <<>>
    /\ run = IdleRun
    /\ now = 0
    /\ runs = 0
    /\ last = NoCall
    /\ synth = NoSynth
    /\ retr = NoRetr
    /\ extr = NoExtr
    /\ contra = NoContra

\* sessions_router.py 124-131: mark_all sets the consent of every living person
UpdateLivingConsent ==
    /\ run.pc = "idle"
    /\ \E can_use_data, can_llm_research \in BOOLEAN :
          people' = [i \in DOMAIN people |->
                        IF people[i].is_living
                        THEN [people[i] EXCEPT !.can_use_data = can_use_data,
                                               !.can_llm_research = can_llm_research]
                        ELSE people[i]]
    /\ people' # people
    /\ UNCHANGED <<job, evidence, claimRows, proposals, decisions, questions, audit,
                   run, now, runs, last, synth, retr, extr, contra>>

NextProgress ==
    \/ RunCompletedJob
    \/ RunStart
    \/ Resolve(JobConfigs)
    \/ Retrieval(JobFailPatterns)
    \/ Extraction(JobReplies)
    \/ Verification
    \/ Synthesis
    \/ Complete
    \/ RaiseFatal
    \/ UpdateLivingConsent

SpecProgress == ProgressInit /\ [][NextProgress]_vars

\* C24: once a person is processed and committed (the job is running, its
\* stage is still synthesis), progress is completed_count / target_count x 100
\* rounded to two decimals, target_count being the count recorded at creation,
\* also when the people of the run are not the people of the snapshot.
C24_ProgressOverTargetCount ==
    (job.status = "running" /\ job.stage = "synthesis") =>
        job.progress = Progress(job.completed_count, job.target_count)


(***************************************************************************)
(* The job next to the question/answer channel of the session.  Earlier    *)
(* jobs of the session may have left answered questions for a person.      *)
(***************************************************************************)
MaxAnswers == 2

EarlierQuestion(job_id, relationship, question) ==
    [job_id |-> job_id, person_xref |-> 1, relationship |-> relationship,
     status |-> "answered", question |-> question, answer |-> "family letter",
     updated_at |-> 0]

\* nine answered questions about person 1, left by two earlier jobs of the session
EarlierAnswers ==
    <<EarlierQuestion(CurrentJobId - 2, "father", "name hint"),
      EarlierQuestion(CurrentJobId - 2, "father", "records"),
      EarlierQuestion(CurrentJobId - 2, "father", "contacts"),
      EarlierQuestion(CurrentJobId - 1, "father", "name hint"),
      EarlierQuestion(CurrentJobId - 1, "father", "records"),
      EarlierQuestion(CurrentJobId - 1, "father", "contacts"),
      EarlierQuestion(CurrentJobId - 1, "mother", "name hint"),
      EarlierQuestion(CurrentJobId - 1, "mother", "records"),
      EarlierQuestion(CurrentJobId - 1, "mother", "contacts")>>

QuestionTables == {<<>>, EarlierAnswers}

QuestionsInit ==
    /\ people = InitPeople
    /\ job = create_research_job(InitPeople, <<>>, 10)
    /\ evidence = <<>>
    /\ claimRows = <<>>
    /\ proposals = <<>>
    /\ decisions = <<>>
    /\ questions \in QuestionTables
    /\ audit = <<>>
    /\ run = IdleRun
    /\ now = 0
    /\ runs = 0
    /\ last = NoCall
    /\ synth = NoSynth
    /\ retr = NoRetr
    /\ extr = NoExtr
    /\ contra = NoContra

AnswerBodies ==
    {[status |-> "answered", answer |-> "aunt says John"],
     [status |-> "answered", answer |-> "  "],
     [status |-> "skipped", answer |-> None]}

\* jobs.py 669-692
answer_research_question(question_id, body) ==
    /\ run.pc = "idle"
    /\ Cardinality({i \in DOMAIN questions : /\ questions[i].job_id = CurrentJobId
                                              /\ questions[i].status # "pending"})
          < MaxAnswers
    /\ question_id \in DOMAIN questions
    /\ LET answer == IF body.answer = None THEN "" ELSE Strip(body.answer)
       IN  IF body.status = "answered" /\ answer = ""
           THEN /\ last' = [op |-> "answer", raised |-> TRUE, arg |-> question_id]
                /\ UNCHANGED <<questions, now>>
           ELSE /\ questions' = [questions EXCEPT
                                   ![question_id].status = body.status,
                                   ![question_id].answer =
                                       IF body.status = "answered" THEN answer ELSE @,
                                   ![question_id].updated_at = now + 1]
                /\ now' = now + 1
                /\ last' = [op |-> "answer", raised |-> FALSE, arg |-> question_id]
    /\ UNCHANGED <<people, job, evidence, claimRows, proposals, decisions, audit, run,
                   runs, synth, retr, extr, contra>>

\* pending questions of the job are answered or skipped
Answer ==
    \E question_id \in {i \in DOMAIN questions : /\ questions[i].job_id = CurrentJobId
                                                  /\ questions[i].status = "pending"} :
        \E body \in AnswerBodies : answer_research_question(question_id, body)

QuestionReplies ==
    {ReplyPair(Reply("ok", "named"), Reply("ok", "none")),
     ReplyPair(Reply("malformed", "none"), Reply("ok", "conflict"))}

NextQuestions ==
    \/ RunCompletedJob
    \/ RunStart
    \/ Resolve(ReviewConfigs)
    \/ Retrieval(ReviewFailPatterns)
    \/ Extraction(QuestionReplies)
    \/ Verification
    \/ Synthesis
    \/ Complete
    \/ RaiseFatal
    \/ Answer

SpecQuestions == QuestionsInit /\ [][NextQuestions]_vars

SameQuestion(a, b) ==
    /\ a.job_id = b.job_id
    /\ a.person_xref = b.person_xref
    /\ a.relationship = b.relationship
    /\ a.question = b.question

\* C25: after any sequence of runs of the job and of answers, no two question
\* rows of the job have the same person, relationship and question text; a
\* run creates no question whose text the job already has for that person and
\* relationship, pending or answered.
C25_QuestionsNotDuplicated ==
    \A i, k \in DOMAIN questions :
        (i # k /\ questions[i].job_id = CurrentJobId) => ~SameQuestion(questions[i], questions[k])

\* a failed job was run again over a person whose questions exist, one of
\* them answered and one pending: the second pass added none of them again
C25_Witness ==
    /\ runs = 2 /\ run.pc = "idle"
    /\ \E xref \in {1, 2} :
          /\ Cardinality(ProposalsFor(xref, "mother")) = 2
          /\ \A id \in ProposalsFor(xref, "mother") : ~HasName(proposals[id])
          /\ \E i, k \in DOMAIN questions :
                /\ questions[i].person_xref = xref /\ questions[k].person_xref = xref
                /\ questions[i].relationship = "mother" /\ questions[k].relationship = "mother"
                /\ questions[i].job_id = CurrentJobId /\ questions[k].job_id = CurrentJobId
                /\ questions[i].status = "answered" /\ questions[k].status = "pending"


\* the answered questions of a person, whatever job of the session asked them
AnsweredFor(xref) ==
    {q \in DOMAIN questions :
        questions[q].person_xref = xref /\ questions[q].status = "answered"}

\* the evidence row a run persisted for an answered question and handed to extraction
AnswerEvidence(q) ==
    {id \in SeqRange(run.evidence_rows) :
        /\ evidence[id].source = "user_answers"
        /\ evidence[id].hash_arg = q
        /\ evidence[id].note = questions[q].answer}

\* C29: when a run has retrieved the evidence of a person and goes on to
\* extraction, every question of that person that was answered before has an
\* evidence row with source 'user_answers' carrying its answer among the rows
\* handed to extraction, however many answered questions the person has.
C29_AnswersBecomeEvidence ==
    run.pc = "extraction" =>
        \A q \in AnsweredFor(run.people[run.idx]) : AnswerEvidence(q) # {}


(***************************************************************************)
(* Stage order of one run                                                  *)
(***************************************************************************)
StageFollows(stage, next_stage) ==
    \/ stage = "initializing" /\ next_stage \in {"retrieval", "completed", "failed"}
    \/ stage = "retrieval" /\ next_stage \in {"extraction", "failed"}
    \/ stage = "extraction" /\ next_stage \in {"verification", "failed"}
    \/ stage = "verification" /\ next_stage \in {"synthesis", "failed"}
    \/ stage = "synthesis" /\ next_stage \in {"retrieval", "completed", "failed"}

\* the position of a person's row in the people table (rows are in id order)
PersonId(xref) == CHOOSE i \in DOMAIN people : people[i].xref = xref

\* C26: within one run the stage moves only initializing -> retrieval ->
\* extraction -> verification -> synthesis for a person, from synthesis to the
\* retrieval of the next person or to completed, and from any of them to
\* failed; people are taken in person-id order; when the retrieval of a
\* person begins the person before is counted complete and that person's
\* proposals are stored; the stage never goes back within a person.
C26_StageOrder ==
    [][run.pc # "idle" =>
          /\ job'.stage # job.stage => StageFollows(job.stage, job'.stage)
          /\ (job'.stage = "retrieval" /\ job.stage # "retrieval") =>
                /\ run.idx = 1 => job.stage = "initializing"
                /\ run.idx > 1 =>
                      /\ job.stage = "synthesis"
                      /\ job.completed_count = run.idx - 1
                      /\ PersonId(run.people[run.idx - 1]) < PersonId(run.people[run.idx])
                      /\ \A i \in 1..2 :
                            ProposalsFor(run.people[run.idx - 1], Relationships[i]) # {}
          /\ job'.stage \in {"completed", "failed"} => run'.pc = "idle"]_vars

\* the second person of a run is in extraction after the first was completed
C26_Witness ==
    /\ run.pc = "verification" /\ run.idx = 2
    /\ job.stage = "extraction" /\ job.completed_count = 1
    /\ ProposalsFor(run.people[1], "father") # {}
    /\ ProposalsFor(run.people[2], "father") = {}


(***************************************************************************)
(* Termination of retrieve_evidence                                        *)
(***************************************************************************)
\* the connector's call succeeded, or every one of its attempts was made and failed
Settled(i) ==
    /\ retr.workers[i].state = "done"
    /\ \/ retr.workers[i].items = retr.connectors[i].items /\ ~AlwaysThrows(i)
       \/ retr.workers[i].attempt = retr.max_retries + 1 /\ AlwaysThrows(i)

\* C27: with every connector call returning or raising, retrieve_evidence
\* terminates for 0..MaxConnectors connectors, max_parallel_connectors >= 1
\* and max_retries >= 0: until it has returned some thread can take a step
\* (the pool and the semaphore do not deadlock), it does return, and when it
\* has returned no call is running or pending: every connector has succeeded
\* or exhausted its attempts and every semaphore slot is free.
C27_RetrievalTerminates ==
    /\ [](retr.pc # "returned" => ENABLED NextRetr)
    /\ <>[](retr.pc = "returned")
    /\ [](retr.pc = "returned" =>
            /\ Running = {}
            /\ \A i \in DOMAIN retr.workers : Settled(i)
            /\ retr.workers # <<>> => retr.semaphore = Max2(1, retr.max_parallel_connectors))

\* a call with more connectors than parallel slots, one of which exhausted
\* its retries, has returned
C27_Witness ==
    /\ retr.pc = "returned"
    /\ Len(retr.connectors) > retr.max_parallel_connectors
    /\ retr.max_retries >= 1
    /\ \E i \in DOMAIN retr.workers : AlwaysThrows(i) /\ retr.workers[i].calls = retr.max_retries + 1
    /\ \E i \in DOMAIN retr.workers : retr.workers[i].attempt = 1 /\ retr.workers[i].items # <<>>


(***************************************************************************)
(* evaluate_contradictions as a function of its arguments                  *)
(***************************************************************************)
MaxContraClaims == 3

ContraClaims ==
    {RawClaim("father", "John Doe", 900, "", <<1>>),
     RawClaim("father", "john  doe", 650, "", <<1>>),
     RawClaim("father", "James Doe", 649, "", <<2>>),
     RawClaim("father", "James Doe", 700, "census 1890", <<2>>),
     RawClaim("father", "  ", 900, "", <<1>>),
     RawClaim("father", None, 950, "", <<>>),
     RawClaim("mother", "Mary Smith", 800, "baptism 1925", <<1>>),
     RawClaim("mother", "Jane Doe", 700, "", <<2>>),
     RawClaim("mother", "John Doe", 950, "", <<1>>)}

ContraClaimLists == UNION {[1..n -> ContraClaims] : n \in 0..MaxContraClaims}

ContraPersons ==
    {[name |-> "Jane Doe", birth_year |-> 1930], [name |-> "James Doe", birth_year |-> 0]}

ContraInit ==
    /\ JobInit
    /\ synth = NoSynth
    /\ retr = NoRetr
    /\ extr = NoExtr
    /\ \E person \in ContraPersons, claims \in ContraClaimLists :
          contra = [pc |-> "called", person |-> person, claims |-> claims,
                    result |-> NoContradictions]

\* contradictions.py 35-78: the call returns its result
EvaluateCall ==
    /\ contra.pc = "called"
    /\ contra' = [contra EXCEPT
                    !.pc = "returned",
                    !.result = evaluate_contradictions(contra.person, contra.claims)]
    /\ UNCHANGED <<dbVars, run, now, runs, last, synth, retr, extr>>

NextContra == EvaluateCall

SpecContra == ContraInit /\ [][NextContra]_vars

\* a claim of rel that names a candidate with confidence >= 0.65
HighConfidenceClaim(c, rel) ==
    /\ c.relationship = rel
    /\ c.candidate_name # None
    /\ c.confidence >= 650

\* the claims with those of one relationship removed
WithoutRel(claims, rel) ==
    LET Other(c) == c.relationship # rel
    IN  SelectSeq(claims, Other)

\* C28: 'multiple_high_confidence_candidates' is in by_relationship[rel] if
\* and only if two claims of rel with confidence >= 0.65 name candidates whose
\* normalized names are non-empty and different; the claims of the other
\* relationship make no difference to it; each returned flag list is sorted
\* and free of duplicates.
C28_MultipleHighConfidence ==
    contra.pc = "returned" =>
        \A r \in 1..2 :
            LET rel == Relationships[r]
                other == Relationships[3 - r]
                flags == contra.result.by_relationship[rel]
                flagged == "multiple_high_confidence_candidates" \in SeqRange(flags)
                alone == evaluate_contradictions(contra.person,
                                                 WithoutRel(contra.claims, other))
            IN  /\ flagged <=>
                      \E i, k \in DOMAIN contra.claims :
                          /\ HighConfidenceClaim(contra.claims[i], rel)
                          /\ HighConfidenceClaim(contra.claims[k], rel)
                          /\ _norm_name(contra.claims[i].candidate_name) # ""
                          /\ _norm_name(contra.claims[k].candidate_name) # ""
                          /\ _norm_name(contra.claims[i].candidate_name)
                                # _norm_name(contra.claims[k].candidate_name)
                /\ flagged <=> "multiple_high_confidence_candidates"
                                  \in SeqRange(alone.by_relationship[rel])
                /\ \A i, k \in DOMAIN flags : i < k => FlagRank(flags[i]) < FlagRank(flags[k])
                /\ \A i, k \in DOMAIN contra.result.global_flags :
                      i < k => FlagRank(contra.result.global_flags[i])
                                 < FlagRank(contra.result.global_flags[k])

\* two differently spelt high-confidence fathers are flagged while a
\* high-confidence mother claim leaves the mother's flags without it
C28_Witness ==
    /\ contra.pc = "returned"
    /\ "multiple_high_confidence_candidates" \in SeqRange(contra.result.by_relationship["father"])
    /\ "multiple_high_confidence_candidates"
          \notin SeqRange(contra.result.by_relationship["mother"])
    /\ \E i \in DOMAIN contra.claims : HighConfidenceClaim(contra.claims[i], "mother")
    /\ Len(contra.result.by_relationship["father"]) > 1


\* C30: no person is linked as their own parent: in every state reached by
\* runs, decisions and apply calls, no person's father_xref or mother_xref is
\* that person's own xref, also when an approved proposal names the child's
\* own name (exactly or within the similarity rule) and the child's sex is
\* unknown or the expected one.
C30_NoSelfParent ==
    \A i \in DOMAIN people :
        /\ people[i].father_xref # people[i].xref
        /\ people[i].mother_xref # people[i].xref

=============================================================================
